---- MODULE Spec2Model ----
(***************************************************************************)
(* librescan: the enrichment and recommendation pipeline.                  *)
(*                                                                         *)
(*   api/lib/googleBooks.js        enrichBooks, checkCache, storeInCache,  *)
(*                                 fetchFromGoogleBooks                    *)
(*   api/generate-recommendations.js  the POST handler and its store      *)
(*   scripts/setup-database.js     the schema (tables, unique indexes)     *)
(*                                                                         *)
(* JavaScript strings are modelled as sequences of one-character strings,  *)
(* so that toLowerCase, trim and encodeURIComponent are computed and not   *)
(* assumed.  Every await of the code is a step of its own, so invocations  *)
(* interleave exactly where the event loop lets them.                      *)
(***************************************************************************)
EXTENDS Integers, Sequences, FiniteSets, TLC

\* ------------------------------------------------------------------------
\* Bounds of the model
\* ------------------------------------------------------------------------
\* how many upserts a run of direct cache operations performs
MaxUpserts == 2
\* how many books the invocations in progress hold together (one invocation
\* with MaxBooks books, or concurrent ones sharing them)
MaxBooks == 2
\* how many hours the clock of the database advances
MaxClock == 2
\* how many fragments a text returned by a model is made of
MaxFragments == 2
MaxEntries == 3
MaxLong == 9
MaxDrift == 1

\* ------------------------------------------------------------------------
\* JavaScript values
\* ------------------------------------------------------------------------
\* null / undefined of a scalar metadata field
JsNull == "null"
\* undefined where a string or an array is expected (an absent author, an
\* absent categories array, an SQL NULL in a text column)
Undefined == <<"undefined">>
\* U+D800 without its low surrogate: a string JSON.parse can produce
LoneSurrogate == "D800"
\* U+FFFD, what a lone surrogate becomes when the driver encodes UTF-8
Replacement == "FFFD"

\* the author the recognition step writes when the model gave none
Unknown == <<"U", "n", "k", "n", "o", "w", "n">>

\* (author || '')
OrEmptyString(s) == IF s = Undefined \/ s = <<>> THEN <<>> ELSE s

\* (x || null) of a scalar field: null, undefined and '' are falsy
OrNull(v) == IF v = JsNull \/ v = "" THEN JsNull ELSE v

\* (x || []) of an array field
OrEmptyArray(a) == IF a = Undefined THEN <<>> ELSE a

LowerChar(c) ==
  CASE c = "A" -> "a"
    [] c = "B" -> "b"
    [] c = "U" -> "u"
    [] c = "H" -> "h"
    [] OTHER -> c

ToLowerCase(s) == [i \in DOMAIN s |-> LowerChar(s[i])]

IsSpace(c) == c = " "

RECURSIVE TrimStart(_)
TrimStart(s) ==
  IF s # <<>> /\ IsSpace(Head(s)) THEN TrimStart(Tail(s)) ELSE s

RECURSIVE TrimEnd(_)
TrimEnd(s) ==
  IF s # <<>> /\ IsSpace(s[Len(s)]) THEN TrimEnd(SubSeq(s, 1, Len(s) - 1)) ELSE s

Trim(s) == TrimEnd(TrimStart(s))

\* encodeURIComponent throws URIError on a lone surrogate
EncodeThrows(s) == \E i \in DOMAIN s : s[i] = LoneSurrogate

\* the text parameter as the database receives it
PgText(s) == [i \in DOMAIN s |-> IF s[i] = LoneSurrogate THEN Replacement ELSE s[i]]

\* ------------------------------------------------------------------------
\* The schema
\* ------------------------------------------------------------------------
\* the unique constraints and unique indexes of book_cache
BookCacheUnique == {{"cache_id"}, {"title_lower", "author_lower"}}
\* the unique constraints and unique indexes of recommendations
RecommendationsUnique == {{"recommendation_id"}}

\* the columns of recommendations
RecommendationsColumns ==
  {"recommendation_id", "device_id", "scan_id", "book_data", "create_at", "saved"}

\* a statement naming a column the table does not have is rejected
ColumnsOk(columns, named) == named \subseteq columns

\* INSERT ... ON CONFLICT (target): the statement is rejected unless a
\* unique index or constraint matches the conflict target
ConflictTargetOk(uniques, target) == target \in uniques

Coalesce(x) == IF x = Undefined THEN <<>> ELSE x

\* ------------------------------------------------------------------------
\* MetadataCache: checkCache and storeInCache
\* ------------------------------------------------------------------------
NullMetadata ==
  [isbn |-> JsNull, cover_url |-> JsNull, description |-> JsNull, categories |-> <<>>]

TitleLower(title) == Trim(ToLowerCase(title))
AuthorLower(author) == Trim(ToLowerCase(OrEmptyString(author)))

CacheRows(rows, titleLower, authorLower) ==
  {r \in rows : r.title_lower = PgText(titleLower)
                /\ Coalesce(r.author_lower) = PgText(authorLower)}

RowMetadata(r) ==
  [isbn |-> r.isbn, cover_url |-> r.cover_url,
   description |-> r.description, categories |-> r.categories]

\* the rows the SELECT of checkCache returns, as their selected columns
CheckCacheRows_SkipsEmpty(rows, title, author) ==
  {RowMetadata(r) : r \in {x \in CacheRows(rows, TitleLower(title), AuthorLower(author)) :
                             x.isbn # JsNull \/ x.cover_url # JsNull}}
CheckCacheRows_NoTrim(rows, title, author) ==
  {RowMetadata(r) : r \in CacheRows(rows, ToLowerCase(title),
                                     ToLowerCase(OrEmptyString(author)))}
CheckCacheRows(rows, title, author) ==
  {RowMetadata(r) : r \in CacheRows(rows, TitleLower(title), AuthorLower(author))}

\* the table after the INSERT ... ON CONFLICT ... DO UPDATE of storeInCache
StoreInCache_DoNothing(rows, cacheId, at, title, author, metadata) ==
  IF \E r \in rows : r.title_lower = PgText(TitleLower(title))
                      /\ r.author_lower = PgText(AuthorLower(author))
    THEN rows
    ELSE rows \cup {[isbn |-> OrNull(metadata.isbn), cover_url |-> OrNull(metadata.cover_url),
                     description |-> OrNull(metadata.description),
                     categories |-> OrEmptyArray(metadata.categories),
                     title |-> PgText(title),
                     author |-> PgText(OrEmptyString(author)),
                     title_lower |-> PgText(TitleLower(title)),
                     author_lower |-> PgText(AuthorLower(author)),
                     cache_id |-> cacheId,
                     cached_at |-> at]}

\* the upsert with title, author and cached_at in its DO UPDATE SET list
StoreInCache_Restamps(rows, cacheId, at, title, author, metadata) ==
  LET titleLower == PgText(TitleLower(title))
      authorLower == PgText(AuthorLower(author))
      fresh == [isbn |-> OrNull(metadata.isbn), cover_url |-> OrNull(metadata.cover_url),
                description |-> OrNull(metadata.description),
                categories |-> OrEmptyArray(metadata.categories), title |-> PgText(title),
                author |-> PgText(OrEmptyString(author)),
                title_lower |-> titleLower,
                author_lower |-> authorLower,
                cache_id |-> cacheId,
                cached_at |-> at]
      hit == {r \in rows : r.title_lower = titleLower /\ r.author_lower = authorLower}
  IN IF hit # {}
       THEN {IF r \in hit THEN [fresh EXCEPT !.cache_id = r.cache_id] ELSE r : r \in rows}
       ELSE rows \cup {fresh}

\* a row that is inserted takes cached_at from the clock of the database,
\* at (DEFAULT CURRENT_TIMESTAMP); DO UPDATE SET names four columns
StoreInCache(rows, cacheId, at, title, author, metadata) ==
  LET titleLower == PgText(TitleLower(title))
      authorLower == PgText(AuthorLower(author))
      isbn == OrNull(metadata.isbn)
      cover == OrNull(metadata.cover_url)
      descr == OrNull(metadata.description)
      cats == OrEmptyArray(metadata.categories)
      hit == {r \in rows : r.title_lower = titleLower /\ r.author_lower = authorLower}
  IN IF hit # {}
       THEN {IF r \in hit
               THEN [r EXCEPT !.isbn = isbn, !.cover_url = cover,
                              !.description = descr, !.categories = cats]
               ELSE r : r \in rows}
       ELSE rows \cup {[isbn |-> isbn,
                        cover_url |-> cover,
                        description |-> descr,
                        categories |-> cats,
                        title |-> PgText(title),
                        author |-> PgText(OrEmptyString(author)), title_lower |-> titleLower,
                        author_lower |-> authorLower, cache_id |-> cacheId,
                        cached_at |-> at]}

\* whether the statement of storeInCache is accepted by the database
StoreInCacheAccepted == ConflictTargetOk(BookCacheUnique, {"title_lower", "author_lower"})

\* ------------------------------------------------------------------------
\* CatalogClient: fetchFromGoogleBooks
\* ------------------------------------------------------------------------
\* the ways one HTTP exchange with the catalog can end
ErrorKinds == {"network_error", "timeout", "http_error", "bad_json", "no_volume_info"}
EmptyKinds == {"zero_results"}

Volumes ==
  { [description |-> "d1", categories |-> <<"Fiction">>, isbn13 |-> "9780",
     isbn10 |-> "0743", thumbnail |-> "http://t",
     smallThumbnail |-> "http://s"],
    [description |-> "", categories |-> Undefined, isbn13 |-> JsNull,
     isbn10 |-> "0451", thumbnail |-> JsNull,
     smallThumbnail |-> "https://s"] }

Responses ==
  [kind : ErrorKinds \cup EmptyKinds, volume : {CHOOSE v \in Volumes : v.isbn13 = "9780"}]
    \cup [kind : {"items"}, volume : Volumes]

\* coverUrl.replace('http://', 'https://')
ForceHttps(u) ==
  CASE u = "http://t" -> "https://t"
    [] u = "http://s" -> "https://s"
    [] OTHER -> u

\* the author is made part of the query
UsesAuthor(author) ==
  /\ ~(author = Undefined \/ author = <<>>)
  /\ Trim(author) # <<>>
  /\ ToLowerCase(author) # ToLowerCase(Unknown)

\* the query is built before the try block: a URIError leaves the function
QueryThrows(title, author) ==
  EncodeThrows(title) \/ (UsesAuthor(author) /\ EncodeThrows(author))

VolumeMetadata(v) ==
  [isbn |-> IF OrNull(v.isbn13) # JsNull THEN v.isbn13 ELSE OrNull(v.isbn10),
   cover_url |-> LET c == IF OrNull(v.thumbnail) # JsNull THEN v.thumbnail
                          ELSE OrNull(v.smallThumbnail)
                 IN IF c = JsNull THEN JsNull ELSE ForceHttps(c),
   description |-> OrNull(v.description),
   categories |-> OrEmptyArray(v.categories)]

\* what fetchFromGoogleBooks hands to enrichBooks: it threw, or it returned
\* null (found = FALSE), or it returned metadata
FetchFromGoogleBooks(title, author, resp) ==
  IF QueryThrows(title, author)
    THEN [metadata |-> NullMetadata, threw |-> TRUE, found |-> FALSE]
  ELSE IF resp.kind = "items"
    THEN [metadata |-> VolumeMetadata(resp.volume), threw |-> FALSE, found |-> TRUE]
  ELSE [metadata |-> NullMetadata, threw |-> FALSE, found |-> FALSE]

\* ------------------------------------------------------------------------
\* State
\* ------------------------------------------------------------------------
\* concurrent invocations of enrichBooks (one per request being served)
Procs == {"p1", "p2"}

\* the books callers hand to enrichBooks
Books ==
  { [title |-> <<"A">>, author |-> <<"B">>, confidence |-> 97],
    [title |-> <<" ", "a">>, author |-> <<"b", " ">>, confidence |-> 83],
    [title |-> <<LoneSurrogate>>, author |-> Unknown, confidence |-> 60] }

RECURSIVE SeqsUpTo(_, _)
SeqsUpTo(S, n) ==
  IF n = 0 THEN {<<>>}
  ELSE LET shorter == SeqsUpTo(S, n - 1)
       IN shorter \cup {Append(q, x) : q \in {r \in shorter : Len(r) = n - 1}, x \in S}

BookLists == SeqsUpTo(Books, MaxBooks)

VARIABLES
  apiKey,     \* process.env.GOOGLE_BOOKS_API_KEY is set
  cache,      \* the rows of book_cache
  pc,         \* where each invocation of enrichBooks stands
  books,      \* its argument
  idx,        \* its loop index i, counted from 1
  out,        \* its enrichedBooks
  fetched,    \* the value fetchFromGoogleBooks returned for the current book
  answer,     \* how the HTTP exchange for the current book ended
  log,        \* the storeInCache calls made directly, in order
  lookup,     \* the last direct checkCache call and the rows it returned
  recs,       \* the rows of recommendations
  hpc,        \* where each POST /api/generate-recommendations request stands
  req,        \* its method and body
  shelf,      \* its recognized books, enriched from the cache so far
  payload,    \* its bookData
  hres,       \* its response
  cleanup,    \* the cleanupOldRecommendations call it started
  now,        \* the clock of the database, in hours
  swept,      \* the outcome of the last cleanupOldRecommendations call
  gen,        \* an invocation of generateRecommendations
  call,       \* a function called on its own: its name, argument and outcome
  prefs,      \* the rows of preferences
  pres        \* the response to the last PUT /api/preferences

enrichVars == <<apiKey, pc, books, idx, out, fetched, answer>>
opsVars == <<log, lookup>>
handlerVars == <<recs, hpc, req, shelf, payload, hres, cleanup>>
prefVars == <<prefs, pres>>
sideVars == <<now, swept, gen, call, prefVars>>
vars == <<cache, enrichVars, opsVars, handlerVars, sideVars>>

NoFetch == [metadata |-> NullMetadata, threw |-> FALSE, found |-> FALSE]

\* no cleanupOldRecommendations call was made yet
NoSweep == [threw |-> FALSE, done |-> FALSE, deleted |-> 0]

\* the state of everything but the recommendations table and its clock
InitBase ==
  /\ apiKey \in BOOLEAN
  /\ cache = {}
  /\ pc = [p \in Procs |-> "idle"]
  /\ books = [p \in Procs |-> <<>>]
  /\ idx = [p \in Procs |-> 0]
  /\ out = [p \in Procs |-> <<>>]
  /\ fetched = [p \in Procs |-> NoFetch]
  /\ answer = [p \in Procs |-> "none"]
  /\ log = <<>>
  /\ lookup = [title |-> <<>>, author |-> <<>>, rows |-> {}, done |-> FALSE]
  /\ hpc = [p \in Procs |-> "idle"]
  /\ req = [p \in Procs |-> [method |-> "", scan_id |-> "", device_id |-> ""]]
  /\ shelf = [p \in Procs |-> <<>>]
  /\ payload = [p \in Procs |->
                  [metadata |-> [prompt_book_count |-> 0], recommendations |-> <<>>]]
  /\ hres = [p \in Procs |->
               [recommendations |->
                  [metadata |-> [prompt_book_count |-> 0], recommendations |-> <<>>], status |-> 0,
                already_existed |-> FALSE]]
  /\ cleanup = [p \in Procs |-> "none"]

\* generateRecommendations is not running
NoGen ==
  [at |-> "idle", books |-> <<>>, prompt_book_count |-> 0, recommendations |-> <<>>, calls |-> 0,
   trace |-> <<>>, timer |-> "unset", error |-> "none",
   rawResponse |-> <<>>]

\* no function was called on its own
NoCall == [fn |-> "none"]

\* no PUT /api/preferences was answered yet
NoAnswer == [status |-> 0]

Init ==
  /\ InitBase
  /\ prefs = {}
  /\ pres = NoAnswer
  /\ recs = {}
  /\ now = 0
  /\ swept = NoSweep
  /\ gen = NoGen
  /\ call = NoCall

\* ------------------------------------------------------------------------
\* EnrichmentOrchestrator: enrichBooks
\* ------------------------------------------------------------------------
\* { ...book, isbn, cover_url, description, categories, enriched }
Enriched(book, m, flag) ==
  [isbn |-> m.isbn, cover_url |-> m.cover_url, description |-> m.description,
   categories |-> OrEmptyArray(m.categories), enriched |-> flag] @@ book

\* the entry pushed for a cache hit
HitEntry(book, row) == Enriched(book, row, TRUE)
\* the entry pushed after the catalog was asked and the result stored
FetchedEntry(book, f) ==
  IF f.found THEN Enriched(book, f.metadata, TRUE) ELSE Enriched(book, NullMetadata, FALSE)
\* the entry pushed by the catch block
FailedEntry_Enriched(book) == Enriched(book, NullMetadata, TRUE)
FailedEntry(book) == Enriched(book, NullMetadata, FALSE)

\* the catch block of the loop: the book is pushed as not enriched
CatchPush_Skipped(list, book) == list
CatchPush(list, book) == Append(list, FailedEntry(book))

\* what is written to the cache after the catalog was asked
StoredMetadata(f) == IF f.found THEN f.metadata ELSE NullMetadata

\* the loop without its setTimeout: the next iteration starts at once
AfterBook_NoDelay(p) == IF idx[p] < Len(books[p]) THEN "check" ELSE "done"
\* the end of one loop iteration that did not `continue`: the delay unless
\* this was the last book
AfterBook(p) == IF idx[p] < Len(books[p]) THEN "delay" ELSE "done"
\* the loop header after `continue` or after the delay
NextBook(p) == IF idx[p] < Len(books[p]) THEN "check" ELSE "done"

\* the books held by the invocations in progress, in the list enrichBooks
\* works on or in the bookData its caller built from the result
InFlight == LET n[S \in SUBSET Procs] ==
                  IF S = {} THEN 0
                  ELSE LET q == CHOOSE x \in S : TRUE
                       IN Len(books[q]) + Len(payload[q].recommendations) + n[S \ {q}]
            IN n[Procs]

\* how the exchange ended, as far as the caller is concerned
AnswerClass(kind) ==
  IF kind \in ErrorKinds THEN "error"
  ELSE IF kind \in EmptyKinds THEN "zero"
  ELSE "items"

\* uuidv4(): an identifier no row carries
FreshId(rows) ==
  CHOOSE n \in 1..(Cardinality(rows) + 1) : \A r \in rows : r.cache_id # n

Start(p, bs) ==
  /\ pc[p] = "idle"
  /\ InFlight + Len(bs) <= MaxBooks
  /\ books' = [books EXCEPT ![p] = bs]
  /\ IF ~apiKey
       THEN /\ out' = [out EXCEPT ![p] = [k \in DOMAIN bs |-> FailedEntry(bs[k])]]
            /\ pc' = [pc EXCEPT ![p] = "done"]
            /\ idx' = idx
     ELSE IF bs = <<>>
       THEN /\ out' = [out EXCEPT ![p] = <<>>]
            /\ pc' = [pc EXCEPT ![p] = "done"]
            /\ idx' = idx
     ELSE /\ out' = [out EXCEPT ![p] = <<>>]
          /\ pc' = [pc EXCEPT ![p] = "check"]
          /\ idx' = [idx EXCEPT ![p] = 1]
  /\ UNCHANGED <<apiKey, cache, fetched, answer>>

\* await checkCache(book.title, book.author), the query succeeding
CheckCache(p) ==
  /\ pc[p] = "check"
  /\ LET book == books[p][idx[p]]
         rows == CheckCacheRows(cache, book.title, book.author)
     IN IF rows # {}
          THEN /\ \E row \in rows : out' = [out EXCEPT ![p] = Append(@, HitEntry(book, row))]
               /\ pc' = [pc EXCEPT ![p] = NextBook(p)]
               /\ idx' = [idx EXCEPT ![p] = IF NextBook(p) = "check" THEN @ + 1 ELSE @]
          ELSE /\ pc' = [pc EXCEPT ![p] = "fetch"]
               /\ UNCHANGED <<out, idx>>
  /\ UNCHANGED <<apiKey, cache, books, fetched, answer>>

\* a query of checkCache or storeInCache rejects: the catch block of the loop
QueryFails(p) ==
  /\ pc[p] \in {"check", "store"}
  /\ out' = [out EXCEPT ![p] = CatchPush(@, books[p][idx[p]])]
  /\ pc' = [pc EXCEPT ![p] = AfterBook(p)]
  /\ fetched' = [fetched EXCEPT ![p] = NoFetch]
  /\ answer' = [answer EXCEPT ![p] = "none"]
  /\ UNCHANGED <<apiKey, cache, books, idx>>

\* fetchFromGoogleBooks(...) called without await: the loop goes on
Fetch_Detached(p, resp) ==
  /\ pc[p] = "fetch"
  /\ pc' = [pc EXCEPT ![p] = AfterBook(p)]
  /\ UNCHANGED <<apiKey, cache, books, idx, out, fetched, answer>>

\* await fetchFromGoogleBooks(book.title, book.author, apiKey)
Fetch(p, resp) ==
  /\ pc[p] = "fetch"
  /\ LET book == books[p][idx[p]]
         f == FetchFromGoogleBooks(book.title, book.author, resp)
     IN IF f.threw
          THEN /\ out' = [out EXCEPT ![p] = CatchPush(@, book)]
               /\ pc' = [pc EXCEPT ![p] = AfterBook(p)]
               /\ UNCHANGED <<fetched, answer>>
          ELSE /\ fetched' = [fetched EXCEPT ![p] = f]
               /\ answer' = [answer EXCEPT ![p] = AnswerClass(resp.kind)]
               /\ pc' = [pc EXCEPT ![p] = "store"]
               /\ out' = out
  /\ UNCHANGED <<apiKey, cache, books, idx>>

\* await storeInCache(...), the query succeeding, then the push
Store(p) ==
  /\ pc[p] = "store"
  /\ StoreInCacheAccepted
  /\ LET book == books[p][idx[p]]
     IN /\ cache' = StoreInCache(cache, FreshId(cache), now, book.title, book.author,
                                 StoredMetadata(fetched[p]))
        /\ out' = [out EXCEPT ![p] = Append(@, FetchedEntry(book, fetched[p]))]
  /\ pc' = [pc EXCEPT ![p] = AfterBook(p)]
  /\ fetched' = [fetched EXCEPT ![p] = NoFetch]
  /\ answer' = [answer EXCEPT ![p] = "none"]
  /\ UNCHANGED <<apiKey, books, idx>>

\* the setTimeout of DELAY_BETWEEN_REQUESTS_MS has fired
Delay(p) ==
  /\ pc[p] = "delay"
  /\ idx' = [idx EXCEPT ![p] = @ + 1]
  /\ pc' = [pc EXCEPT ![p] = "check"]
  /\ UNCHANGED <<apiKey, cache, books, out, fetched, answer>>

\* the invocation hands enrichedBooks to its caller
Return(p) ==
  /\ pc[p] = "done"
  /\ pc' = [pc EXCEPT ![p] = "idle"]
  /\ books' = [books EXCEPT ![p] = <<>>]
  /\ idx' = [idx EXCEPT ![p] = 0]
  /\ out' = [out EXCEPT ![p] = <<>>]
  /\ fetched' = [fetched EXCEPT ![p] = NoFetch]
  /\ answer' = [answer EXCEPT ![p] = "none"]
  /\ UNCHANGED <<apiKey, cache>>

EnrichNext ==
  \E p \in Procs :
    \/ Return(p)
    \/ \E bs \in BookLists : Start(p, bs)
    \/ CheckCache(p)
    \/ QueryFails(p)
    \/ \E resp \in Responses : Fetch(p, resp)
    \/ Store(p)
    \/ Delay(p)

Next == EnrichNext /\ UNCHANGED <<opsVars, sideVars, handlerVars, sideVars>>

\* requests calling enrichBooks, concurrently, against one book_cache
Spec == Init /\ [][Next]_vars

\* ------------------------------------------------------------------------
\* MetadataCache on its own: storeInCache and checkCache called in sequence
\* ------------------------------------------------------------------------
CacheTitles == {<<"A">>, <<" ", "a", " ">>, <<"A", "B">>}
CacheAuthors == {Undefined, <<>>, <<"B">>, <<"b", " ">>}
\* the metadata enrichBooks passes to storeInCache
CacheMetadata == {VolumeMetadata(v) : v \in {x \in Volumes : x.isbn13 # JsNull}} \cup {NullMetadata}

Upsert(t, a, m) ==
  /\ Len(log) < MaxUpserts
  /\ StoreInCacheAccepted
  /\ cache' = StoreInCache(cache, FreshId(cache), now, t, a, m)
  /\ log' = Append(log, [title |-> t, author |-> a, metadata |-> m])
  /\ lookup' = [title |-> <<>>, author |-> <<>>, rows |-> {}, done |-> FALSE]
  /\ now' = now + 1
  /\ UNCHANGED <<enrichVars, handlerVars, swept, gen, call, prefVars>>

Lookup(t, a) ==
  /\ lookup' = [title |-> t, author |-> a, rows |-> CheckCacheRows(cache, t, a),
                done |-> TRUE]
  /\ UNCHANGED <<cache, log, enrichVars, handlerVars, sideVars>>

CacheNext ==
  \/ \E t \in CacheTitles, a \in CacheAuthors, m \in CacheMetadata : Upsert(t, a, m)
  \/ \E t \in CacheTitles, a \in CacheAuthors : Lookup(t, a)

SpecCache == Init /\ [][CacheNext]_vars

\* ------------------------------------------------------------------------
\* POST /api/generate-recommendations
\* ------------------------------------------------------------------------
\* identifiers that match the UUID v4 pattern of the handler
IsUuid(x) == x \in {"s1", "s2", "s9", "d1", "d2"}

\* the rows of scans
ScanTable ==
  { [scan_id |-> "s1", device_id |-> "d1",
     recognized_books |->
       [books |-> <<[title |-> <<"A">>, author |-> <<"B">>, confidence |-> 97]>>]],
    [scan_id |-> "s2", device_id |-> "d2", recognized_books |-> [books |-> <<>>]] }

\* requests clients send
Requests ==
  { [method |-> "GET", scan_id |-> "s1", device_id |-> "d1"],
    [method |-> "POST", scan_id |-> "", device_id |-> "d1"],
    [method |-> "POST", scan_id |-> "s1", device_id |-> "not-a-uuid"],
    [method |-> "POST", scan_id |-> "s9", device_id |-> "d1"],
    [method |-> "POST", scan_id |-> "s1", device_id |-> "d2"],
    [method |-> "POST", scan_id |-> "s2", device_id |-> "d2"],
    [method |-> "POST", scan_id |-> "s1", device_id |-> "d1"] }

\* validated recommendations of the model: title, author, reason
RecBooks ==
  { [title |-> <<"A">>, author |-> <<"B">>, reason |-> "r1"],
    [title |-> <<"a">>, author |-> <<"b">>, reason |-> "r2"] }

RecLists == SeqsUpTo(RecBooks, MaxBooks)

\* the ways generateRecommendations throws
LlmErrors == {"timeout", "api_error", "network_error"}

NoData == [metadata |-> [prompt_book_count |-> 0], recommendations |-> <<>>]

Response(status, already, data) ==
  [recommendations |-> data, status |-> status, already_existed |-> already]

\* the 500 of step 5, whose error text is "The AI did not return valid results"
NoValidResults == Response(500, FALSE, NoData) @@ [error |-> "no_valid_results"]

\* the status of the checks made before the first query; 0 when they pass
Rejected(q) ==
  IF q.method # "POST" THEN 405
  ELSE IF q.scan_id = "" \/ q.device_id = "" THEN 400
  ELSE IF ~IsUuid(q.scan_id) \/ ~IsUuid(q.device_id) THEN 400
  ELSE 0

\* the response is sent; the locals of the invocation are gone
Respond(r, response) ==
  /\ hres' = [hres EXCEPT ![r] = response]
  /\ hpc' = [hpc EXCEPT ![r] = "done"]
  /\ shelf' = [shelf EXCEPT ![r] = <<>>]
  /\ payload' = [payload EXCEPT ![r] = NoData]

Receive(r, q) ==
  /\ hpc[r] = "idle" /\ pc[r] = "idle"
  /\ req' = [req EXCEPT ![r] = q]
  /\ IF Rejected(q) # 0
       THEN Respond(r, Response(Rejected(q), FALSE, NoData))
       ELSE /\ hpc' = [hpc EXCEPT ![r] = "existing"]
            /\ UNCHANGED <<hres, shelf, payload>>
  /\ UNCHANGED <<cache, enrichVars, opsVars, sideVars, recs, cleanup>>

\* Step 2: SELECT ... FROM recommendations WHERE scan_id = $1
CheckExisting(r) ==
  /\ hpc[r] = "existing"
  /\ LET rows == {x \in recs : x.scan_id = req[r].scan_id}
     IN IF rows # {}
          THEN \E row \in rows : Respond(r, Response(200, TRUE, row.book_data))
          ELSE /\ hpc' = [hpc EXCEPT ![r] = "scan"]
               /\ UNCHANGED <<hres, shelf, payload>>
  /\ UNCHANGED <<cache, enrichVars, opsVars, sideVars, recs, req, cleanup>>

\* Step 3: SELECT ... FROM scans WHERE scan_id = $1, and the checks on it
FetchScan(r) ==
  /\ hpc[r] = "scan"
  /\ LET rows == {x \in ScanTable : x.scan_id = req[r].scan_id}
     IN IF rows = {}
          THEN Respond(r, Response(404, FALSE, NoData))
        ELSE LET scan == CHOOSE x \in rows : TRUE
             IN IF scan.device_id # req[r].device_id
                  THEN Respond(r, Response(403, FALSE, NoData))
                ELSE IF scan.recognized_books.books = <<>>
                  THEN Respond(r, Response(400, FALSE, NoData))
                ELSE /\ hpc' = [hpc EXCEPT ![r] = "shelf"]
                     /\ UNCHANGED <<hres, shelf, payload>>
  /\ UNCHANGED <<cache, enrichVars, opsVars, sideVars, recs, req, cleanup>>

\* the recognized books of the request's scan
Recognized(r) ==
  (CHOOSE x \in ScanTable : x.scan_id = req[r].scan_id).recognized_books.books

\* the loop of enrichBooksFromCache goes on, or generateRecommendations is called
AfterShelfBook(r) == IF Len(shelf[r]) + 1 < Len(Recognized(r)) THEN "shelf" ELSE "llm"

\* Step 4: one iteration of enrichBooksFromCache, the query succeeding
ShelfLookup(r) ==
  /\ hpc[r] = "shelf"
  /\ LET book == Recognized(r)[Len(shelf[r]) + 1]
         rows == CheckCacheRows(cache, book.title, book.author)
     IN IF rows # {}
          THEN \E row \in rows :
                 shelf' = [shelf EXCEPT ![r] =
                   Append(@, [isbn |-> OrNull(row.isbn), cover_url |-> OrNull(row.cover_url),
                              description |-> OrNull(row.description),
                              categories |-> OrEmptyArray(row.categories),
                              enriched |-> TRUE] @@ book)]
          ELSE shelf' = [shelf EXCEPT ![r] = Append(@, [enriched |-> FALSE] @@ book)]
  /\ hpc' = [hpc EXCEPT ![r] = AfterShelfBook(r)]
  /\ UNCHANGED <<cache, enrichVars, opsVars, sideVars, recs, req, payload, hres, cleanup>>

\* Step 4: one iteration of enrichBooksFromCache, the query rejecting
ShelfLookupFails(r) ==
  /\ hpc[r] = "shelf"
  /\ shelf' = [shelf EXCEPT ![r] =
       Append(@, [enriched |-> FALSE] @@ Recognized(r)[Len(shelf[r]) + 1])]
  /\ hpc' = [hpc EXCEPT ![r] = AfterShelfBook(r)]
  /\ UNCHANGED <<cache, enrichVars, opsVars, sideVars, recs, req, payload, hres, cleanup>>

\* Step 5: generateRecommendations throws
LlmFails(r, err) ==
  /\ hpc[r] = "llm"
  /\ Respond(r, Response(500, FALSE, NoData))
  /\ UNCHANGED <<cache, enrichVars, opsVars, sideVars, recs, req, cleanup>>

\* generateRecommendations returns and enrichBooks is called whatever the list
LlmReturns_KeepsEmpty(r, list) ==
  /\ hpc[r] = "llm"
  /\ Start(r, list)
  /\ hpc' = [hpc EXCEPT ![r] = "enrich"]
  /\ UNCHANGED <<hres, shelf, payload>>
  /\ UNCHANGED <<opsVars, sideVars, recs, req, cleanup>>

\* Steps 5 and 6: generateRecommendations returns; unless the list is empty
\* enrichBooks is called with it and runs up to its first query
LlmReturns(r, list) ==
  /\ hpc[r] = "llm"
  /\ IF list = <<>>
       THEN /\ Respond(r, NoValidResults)
            /\ UNCHANGED <<cache, enrichVars>>
       ELSE /\ Start(r, list)
            /\ hpc' = [hpc EXCEPT ![r] = "enrich"]
            /\ UNCHANGED <<hres, shelf, payload>>
  /\ UNCHANGED <<opsVars, sideVars, recs, req, cleanup>>

\* Step 7: enrichBooks has returned; bookData is built and the INSERT sent
EnrichReturns(r) ==
  /\ hpc[r] = "enrich"
  /\ Return(r)
  /\ payload' = [payload EXCEPT ![r] =
       [metadata |-> [prompt_book_count |-> Len(shelf[r])], recommendations |-> out[r]]]
  /\ hpc' = [hpc EXCEPT ![r] = "store"]
  /\ UNCHANGED <<opsVars, sideVars, recs, req, shelf, hres, cleanup>>

\* whether the INSERT ... ON CONFLICT (scan_id) is accepted by the database
StoreAccepted == ConflictTargetOk(RecommendationsUnique, {"scan_id"})

\* uuidv4() for recommendation_id
FreshRecId(rows) ==
  CHOOSE n \in 1..(Cardinality(rows) + 1) : \A x \in rows : x.recommendation_id # n

\* the table after INSERT ... ON CONFLICT (scan_id) DO UPDATE SET book_data = $4
\* (create_at is filled by its default, CURRENT_TIMESTAMP)
InsertRecommendation(rows, id, device, scan, data, at) ==
  IF \E x \in rows : x.scan_id = scan
    THEN {IF x.scan_id = scan THEN [x EXCEPT !.book_data = data] ELSE x : x \in rows}
    ELSE rows \cup {[scan_id |-> scan, device_id |-> device, book_data |-> data,
                     recommendation_id |-> id, create_at |-> at, saved |-> FALSE]}

\* Steps 8 to 10: the INSERT is executed; on success cleanup is started
\* without being awaited and 200 is answered; a rejected statement throws
\* into the catch of the handler
StoreRecommendations(r) ==
  /\ hpc[r] = "store"
  /\ IF StoreAccepted
       THEN /\ recs' = InsertRecommendation(recs, FreshRecId(recs), req[r].device_id,
                                            req[r].scan_id, payload[r], now)
            /\ cleanup' = [cleanup EXCEPT ![r] = "pending"]
            /\ Respond(r, Response(200, FALSE, payload[r]))
       ELSE /\ Respond(r, Response(500, FALSE, NoData))
            /\ UNCHANGED <<recs, cleanup>>
  /\ UNCHANGED <<cache, enrichVars, opsVars, sideVars, req>>

\* a query of step 2, 3 or 8 rejects: the catch of the handler answers 500
HandlerQueryFails(r) ==
  /\ hpc[r] \in {"existing", "scan", "store"}
  /\ Respond(r, Response(500, FALSE, NoData))
  /\ UNCHANGED <<cache, enrichVars, opsVars, sideVars, recs, req, cleanup>>

\* the response was sent; the slot serves the next request
Finish(r) ==
  /\ hpc[r] = "done"
  /\ hpc' = [hpc EXCEPT ![r] = "idle"]
  /\ req' = [req EXCEPT ![r] = [method |-> "", scan_id |-> "", device_id |-> ""]]
  /\ hres' = [hres EXCEPT ![r] = Response(0, FALSE, NoData)]
  /\ UNCHANGED <<cache, enrichVars, opsVars, sideVars, recs, shelf, payload, cleanup>>

\* the steps of enrichBooks between its call and its return
EnrichStep(p) ==
  \/ CheckCache(p)
  \/ QueryFails(p)
  \/ \E resp \in Responses : Fetch(p, resp)
  \/ Store(p)
  \/ Delay(p)

HandlerNext ==
  \E r \in Procs :
    \/ \E q \in Requests : Receive(r, q)
    \/ CheckExisting(r)
    \/ FetchScan(r)
    \/ ShelfLookup(r)
    \/ ShelfLookupFails(r)
    \/ \E err \in LlmErrors : LlmFails(r, err)
    \/ \E list \in RecLists : LlmReturns(r, list)
    \/ EnrichReturns(r)
    \/ StoreRecommendations(r)
    \/ HandlerQueryFails(r)
    \/ Finish(r)
    \/ (EnrichStep(r) /\ UNCHANGED <<opsVars, sideVars, handlerVars, sideVars>>)

\* requests to POST /api/generate-recommendations served concurrently
SpecRec == Init /\ [][HandlerNext]_vars

\* ------------------------------------------------------------------------
\* cleanupOldRecommendations
\* ------------------------------------------------------------------------
\* INTERVAL '24 hours'
RetentionHours == 24

\* whether the DELETE ... WHERE saved = FALSE AND created_at < ... is
\* accepted by the database
CleanupAccepted == ColumnsOk(RecommendationsColumns, {"saved", "created_at"})

\* the rows the DELETE removes at time t, col being the timestamp it compares
DeletedRows(rows, col, t) ==
  {x \in rows : x.saved = FALSE /\ x[col] < t - RetentionHours}

\* the DELETE is executed and its rowCount returned, or the rejected
\* statement makes the call throw
CleanupQuery ==
  /\ IF CleanupAccepted
       THEN LET gone == DeletedRows(recs, "created_at", now)
            IN /\ recs' = recs \ gone
               /\ swept' = [threw |-> FALSE, done |-> TRUE, deleted |-> Cardinality(gone)]
       ELSE /\ recs' = recs
            /\ swept' = [threw |-> TRUE, done |-> TRUE, deleted |-> 0]
  /\ UNCHANGED <<now, gen, call, prefVars>>

\* one call of cleanupOldRecommendations
CleanupOldRecommendations ==
  /\ CleanupQuery
  /\ UNCHANGED <<cache, enrichVars, opsVars, hpc, req, shelf, payload, hres, cleanup>>

\* Step 9: the call the handler started without awaiting it settles; a
\* rejection goes to its .catch and is logged. Only a request whose INSERT
\* was accepted starts the call (see StoreAccepted).
HandlerCleanup(r) ==
  /\ cleanup[r] = "pending"
  /\ CleanupQuery
  /\ cleanup' = [cleanup EXCEPT ![r] = IF swept'.threw THEN "logged" ELSE "settled"]
  /\ UNCHANGED <<cache, enrichVars, opsVars, hpc, req, shelf, payload, hres>>

\* an hour passes
Tick ==
  /\ now < MaxClock
  /\ now' = now + 1
  /\ swept' = NoSweep
  /\ UNCHANGED <<cache, enrichVars, opsVars, handlerVars, gen, call, prefVars>>

\* rows the table may hold when cleanup is called: unsaved and 25 hours old,
\* saved and 999 hours old, unsaved and 23 hours old, unsaved and exactly 24
\* hours old
StoredRow(id, scan, saved, at) ==
  [scan_id |-> scan, device_id |-> "d1", book_data |-> NoData,
   recommendation_id |-> id, create_at |-> at, saved |-> saved]

SampleRows ==
  { StoredRow(1, "s1", FALSE, 0 - 25), StoredRow(2, "s1", TRUE, 0 - 999),
    StoredRow(3, "s2", FALSE, 0 - 23), StoredRow(4, "s2", FALSE, 0 - 24) }

InitCleanup ==
  /\ InitBase
  /\ recs \in SUBSET SampleRows
  /\ prefs = {}
  /\ pres = NoAnswer
  /\ now = 0
  /\ swept = NoSweep
  /\ gen = NoGen
  /\ call = NoCall

CleanupNext == CleanupOldRecommendations \/ Tick

\* cleanupOldRecommendations called against a table that holds rows
SpecCleanup == InitCleanup /\ [][CleanupNext]_vars

\* ------------------------------------------------------------------------
\* Values JSON.parse produces
\* ------------------------------------------------------------------------
JNull == [t |-> "null"]
JUndef == [t |-> "undefined"]
JNum(n) == [n |-> n, t |-> "num"]
JBool(b) == [t |-> "bool", b |-> b]
JStr(s) == [s |-> s, t |-> "str"]
JArr(a) == [a |-> a, t |-> "arr"]
\* an object: its members in the order of the text, as <<key, value>> records
JObj(m) == [m |-> m, t |-> "obj"]

Member(k, v) == [v |-> v, k |-> k]

\* reading a property of null or undefined throws TypeError
PropThrows(v) == v.t \in {"null", "undefined"}

\* v[key] for a value that is neither null nor undefined: the member of an
\* object (the last one of that key), undefined for anything else
Prop(v, key) ==
  IF v.t # "obj" THEN JUndef
  ELSE LET at == {i \in DOMAIN v.m : v.m[i].k = key}
       IN IF at = {} THEN JUndef
          ELSE v.m[CHOOSE i \in at : \A j \in at : j <= i].v

\* the truthiness of a value
Truthy(v) ==
  CASE v.t \in {"null", "undefined"} -> FALSE
    [] v.t = "num" -> v.n # 0
    [] v.t = "bool" -> v.b
    [] v.t = "str" -> v.s # <<>>
    [] OTHER -> TRUE

\* v || d
OrValue(v, d) == IF Truthy(v) THEN v ELSE d

\* v.trim() throws TypeError unless v is a string
TrimThrows(v) == v.t # "str"

\* s.endsWith(suffix)
EndsWith(s, suffix) ==
  /\ Len(suffix) <= Len(s)
  /\ SubSeq(s, Len(s) - Len(suffix) + 1, Len(s)) = suffix

\* the first n elements of s: s.slice(0, n), s.substring(0, n)
Take(s, n) == SubSeq(s, 1, IF n < Len(s) THEN n ELSE Len(s))

\* ------------------------------------------------------------------------
\* JSON.parse and the patterns of the parsers, on texts made of tokens
\* ------------------------------------------------------------------------
\* A text is a sequence of tokens: the punctuation of JSON, the literals
\* null, true, false, 0 and 7, quoted strings (the tokens of StringTokens),
\* "ws" for a run of whitespace, "fence" for the three backquotes of a code
\* fence, "json" for the word after a fence and "prose" for a run of other
\* characters.
Chars(name) ==
  CASE name = "$title" -> <<"t", "i", "t", "l", "e">>
    [] name = "$author" -> <<"a", "u", "t", "h", "o", "r">>
    [] name = "$reason" -> <<"r", "e", "a", "s", "o", "n">>
    [] name = "$books" -> <<"b", "o", "o", "k", "s">>
    [] name = "$list" -> <<"l", "i", "s", "t">>
    [] name = "$certainty" -> <<"c", "e", "r", "t", "a", "i", "n", "t", "y">>
    [] name = "$high" -> <<"h", "i", "g", "h">>
    [] name = "$A" -> <<"A">>
    [] name = "$B" -> <<"B">>
    [] name = "$ A " -> <<" ", "A", " ">>
    [] name = "$A by B" -> <<"A", " ", "b", "y", " ", "B">>
    [] name = "$ " -> <<" ">>
    [] name = "$Ok." -> <<"O", "k", ".">>
    [] OTHER -> <<>>

StringTokens ==
  {"$title", "$author", "$reason", "$books", "$list", "$certainty", "$high",
   "$A", "$B", "$ A ", "$A by B", "$ ", "$Ok.", "$"}

\* the property name a quoted string is when it is the key of a member
KeyOf(name) ==
  CASE name = "$title" -> "title"
    [] name = "$author" -> "author"
    [] name = "$reason" -> "reason"
    [] name = "$books" -> "books"
    [] name = "$list" -> "list"
    [] name = "$certainty" -> "certainty"
    [] OTHER -> name

NoValue == [v |-> JUndef, ok |-> FALSE, next |-> 0]
Parsed(v, next) == [v |-> v, ok |-> TRUE, next |-> next]

RECURSIVE ParseValue(_, _)
RECURSIVE ParseElements(_, _, _, _)
RECURSIVE ParseMembers(_, _, _, _)

\* the value that starts at token i, and the index after it
ParseValue(ts, i) ==
  IF i > Len(ts) THEN NoValue
  ELSE CASE ts[i] = "null" -> Parsed(JNull, i + 1)
         [] ts[i] = "true" -> Parsed(JBool(TRUE), i + 1)
         [] ts[i] = "false" -> Parsed(JBool(FALSE), i + 1)
         [] ts[i] = "0" -> Parsed(JNum(0), i + 1)
         [] ts[i] = "7" -> Parsed(JNum(7), i + 1)
         [] ts[i] \in StringTokens -> Parsed(JStr(Chars(ts[i])), i + 1)
         [] ts[i] = "[" -> ParseElements(ts, i + 1, <<>>, TRUE)
         [] ts[i] = "{" -> ParseMembers(ts, i + 1, <<>>, TRUE)
         [] OTHER -> NoValue

\* the rest of an array whose elements so far are acc; first: right after [
ParseElements(ts, i, acc, first) ==
  IF i > Len(ts) THEN NoValue
  ELSE IF first /\ ts[i] = "]" THEN Parsed(JArr(acc), i + 1)
  ELSE LET r == ParseValue(ts, i)
       IN IF ~r.ok \/ r.next > Len(ts) THEN NoValue
          ELSE IF ts[r.next] = "," THEN ParseElements(ts, r.next + 1, Append(acc, r.v), FALSE)
          ELSE IF ts[r.next] = "]" THEN Parsed(JArr(Append(acc, r.v)), r.next + 1)
          ELSE NoValue

\* the rest of an object whose members so far are acc; first: right after {
ParseMembers(ts, i, acc, first) ==
  IF i > Len(ts) THEN NoValue
  ELSE IF first /\ ts[i] = "}" THEN Parsed(JObj(acc), i + 1)
  ELSE IF ts[i] \notin StringTokens \/ i + 1 > Len(ts) THEN NoValue
  ELSE IF ts[i + 1] # ":" THEN NoValue
  ELSE LET r == ParseValue(ts, i + 2)
           m == Append(acc, Member(KeyOf(ts[i]), r.v))
       IN IF ~r.ok \/ r.next > Len(ts) THEN NoValue
          ELSE IF ts[r.next] = "," THEN ParseMembers(ts, r.next + 1, m, FALSE)
          ELSE IF ts[r.next] = "}" THEN Parsed(JObj(m), r.next + 1)
          ELSE NoValue

NotSpace(tok) == tok # "ws"

\* JSON.parse(text): the value, or ok = FALSE for a SyntaxError
JsonParse(text) ==
  LET ts == SelectSeq(text, NotSpace)
      r == ParseValue(ts, 1)
  IN IF r.ok /\ r.next = Len(ts) + 1 THEN r ELSE NoValue

\* text.trim()
TrimText(text) ==
  LET at == {i \in DOMAIN text : text[i] # "ws"}
  IN IF at = {} THEN <<>>
     ELSE SubSeq(text, CHOOSE i \in at : \A j \in at : i <= j,
                       CHOOSE i \in at : \A j \in at : j <= i)

NoMatch == [found |-> FALSE, text |-> <<>>]

\* the match of open [\s\S]* close: from the first open to the last close
Span(text, open, close) ==
  LET from == {i \in DOMAIN text : text[i] = open}
      first == CHOOSE i \in from : \A j \in from : i <= j
      to == {i \in DOMAIN text : text[i] = close /\ i > first}
  IN IF from = {} THEN NoMatch
     ELSE IF to = {} THEN NoMatch
     ELSE [found |-> TRUE,
           text |-> SubSeq(text, first, CHOOSE i \in to : \A j \in to : j <= i)]

\* the index of the first token at or after i that is not whitespace
RECURSIVE SkipSpace(_, _)
SkipSpace(text, i) ==
  IF i <= Len(text) /\ text[i] = "ws" THEN SkipSpace(text, i + 1) ELSE i

\* the index after ```(?:json)?\s* for a fence at i
AfterFence(text, i) ==
  SkipSpace(text, IF i + 1 <= Len(text) /\ text[i + 1] = "json" THEN i + 2 ELSE i + 1)

\* /```(?:json)?\s*([\s\S]*?)```/ of the recommendation parser: the first
\* fence that has a fence after it, and what stands between them
FenceMatch(text) ==
  LET fences == {i \in DOMAIN text : text[i] = "fence"}
      open == CHOOSE i \in fences : \A j \in fences : i <= j
      later == {j \in fences : j > open}
      close == CHOOSE j \in later : \A k \in later : j <= k
      from == IF AfterFence(text, open) <= close THEN AfterFence(text, open) ELSE close
  IN IF Cardinality(fences) < 2 THEN NoMatch
     ELSE [found |-> TRUE, text |-> SubSeq(text, from, close - 1)]

\* the closing ] of /(\[[\s\S]*?\])\s*```/ for an array that opens at p: the
\* first ] that only whitespace separates from a fence
ArrayCloses(text, p) ==
  {j \in DOMAIN text :
     /\ j > p /\ text[j] = "]"
     /\ SkipSpace(text, j + 1) <= Len(text)
     /\ text[SkipSpace(text, j + 1)] = "fence"}

\* /```(?:json)?\s*(\[[\s\S]*?\])\s*```/ of the recognition parser
FencedArrayMatch(text) ==
  LET opens == {i \in DOMAIN text :
                  /\ text[i] = "fence"
                  /\ AfterFence(text, i) <= Len(text)
                  /\ text[AfterFence(text, i)] = "["
                  /\ ArrayCloses(text, AfterFence(text, i)) # {}}
      open == CHOOSE i \in opens : \A j \in opens : i <= j
      p == AfterFence(text, open)
      closes == ArrayCloses(text, p)
  IN IF opens = {} THEN NoMatch
     ELSE [found |-> TRUE,
           text |-> SubSeq(text, p, CHOOSE j \in closes : \A k \in closes : j <= k)]

\* ------------------------------------------------------------------------
\* parseAIResponse of the recognition module
\* ------------------------------------------------------------------------
\* How a strategy, or a parser, ends: it returned a list, it threw, or (both
\* FALSE) it came to its end without either
Returned(list) == [threw |-> FALSE, list |-> list, returned |-> TRUE]
Thrown == [threw |-> TRUE, list |-> <<>>, returned |-> FALSE]
FellThrough == [threw |-> FALSE, list |-> <<>>, returned |-> FALSE]

\* try { strategy } catch (err) { }: what a strategy throws is dropped
AiCatch(o) == IF o.threw THEN FellThrough ELSE o

\* Strategy 1: JSON.parse(trimmed); an array, or an object whose books
\* member is an array, is returned
DirectBooks(text) ==
  LET r == JsonParse(text)
  IN IF ~r.ok THEN Thrown
     ELSE IF r.v.t = "arr" THEN Returned(r.v.a)
     ELSE IF Truthy(r.v) /\ Prop(r.v, "books").t = "arr"
       THEN Returned(Prop(r.v, "books").a)
     ELSE FellThrough

\* Strategies 2 and 3: JSON.parse of what the pattern matched, if anything;
\* an array is returned
MatchedArray(m) ==
  IF ~m.found THEN FellThrough
  ELSE LET r == JsonParse(m.text)
       IN IF ~r.ok THEN Thrown
          ELSE IF r.v.t = "arr" THEN Returned(r.v.a)
          ELSE FellThrough

\* parseAIResponse(responseText) for a string
parseAIResponse(responseText) ==
  LET trimmed == TrimText(responseText)
      s1 == AiCatch(DirectBooks(trimmed))
      s2 == AiCatch(MatchedArray(Span(trimmed, "[", "]")))
      s3 == AiCatch(MatchedArray(FencedArrayMatch(trimmed)))
  IN IF trimmed = <<>> THEN Returned(<<>>)
     ELSE IF s1.returned \/ s1.threw THEN s1
     ELSE IF s2.returned \/ s2.threw THEN s2
     ELSE IF s3.returned \/ s3.threw THEN s3
     ELSE Returned(<<>>)

\* ------------------------------------------------------------------------
\* validateAndClean and truncateReason of the recommendation module
\* ------------------------------------------------------------------------
NUM_RECOMMENDATIONS == 8
\* the character budget of a reason, and the mark a sentence end must pass
ReasonBudget == 200
ReasonFloor == 80

\* the greatest 0-based index of one of the characters in s, -1 if none
LastIndexOf(s, chars) ==
  LET at == {i \in DOMAIN s : s[i] \in chars}
  IN IF at = {} THEN 0 - 1
     ELSE (CHOOSE i \in at : \A j \in at : j <= i) - 1

\* the truncation without the search for a sentence end
truncateReason_HardCut(reason) ==
  Trim(Take(Trim(reason), ReasonBudget)) \o <<".", ".", ".">>

truncateReason(reason) ==
  LET trimmed == Trim(reason)
      cutoff == Take(trimmed, ReasonBudget)
      lastSentenceEnd == LastIndexOf(cutoff, {".", "!", "?"})
  IN IF lastSentenceEnd > ReasonFloor
       THEN Take(trimmed, lastSentenceEnd + 1)
       ELSE Trim(cutoff) \o <<".", ".", ".">>

\* the filter: rec.title && typeof rec.title === "string" &&
\* rec.title.trim().length > 0 (rec is neither null nor undefined)
HasTitle(rec) ==
  LET title == Prop(rec, "title")
  IN /\ Truthy(title)
     /\ title.t = "str"
     /\ Trim(title.s) # <<>>

\* the filter throws on an entry whose property cannot be read
FilterThrows(list) == \E i \in DOMAIN list : PropThrows(list[i])

\* (rec.author || "Unknown") and (rec.reason || "")
AuthorOf(rec) == OrValue(Prop(rec, "author"), JStr(Unknown))
ReasonOf(rec) == OrValue(Prop(rec, "reason"), JStr(<<>>))

\* the map throws on an author or a reason that has no trim()
CleanThrows(rec) == TrimThrows(AuthorOf(rec)) \/ TrimThrows(ReasonOf(rec))

\* the title without a trailing " by <author>"
StripBy(title, author) ==
  LET suffix == <<" ", "b", "y", " ">> \o author
  IN IF author # Unknown /\ EndsWith(ToLowerCase(title), ToLowerCase(suffix))
       THEN Trim(SubSeq(title, 1, Len(title) - Len(suffix)))
       ELSE title

\* the map, for an entry that passed the filter and has string fields
CleanRec(rec) ==
  LET author == Trim(AuthorOf(rec).s)
  IN [title |-> StripBy(Trim(Prop(rec, "title").s), author),
      author |-> author,
      reason |-> truncateReason(ReasonOf(rec).s)]

\* the cap: .slice(0, NUM_RECOMMENDATIONS)
Cap(list) == Take(list, NUM_RECOMMENDATIONS)

\* validateAndClean(recommendations): the cleaned list, or a TypeError
validateAndClean(list) ==
  IF FilterThrows(list) THEN [threw |-> TRUE, list |-> <<>>]
  ELSE LET kept == SelectSeq(list, HasTitle)
       IN IF \E i \in DOMAIN kept : CleanThrows(kept[i])
            THEN [threw |-> TRUE, list |-> <<>>]
            ELSE [threw |-> FALSE,
                  list |-> Cap([i \in DOMAIN kept |-> CleanRec(kept[i])])]

\* ------------------------------------------------------------------------
\* parseRecommendations of the recommendation module
\* ------------------------------------------------------------------------
\* try { strategy } catch { }: what a strategy throws is dropped
RecCatch_Rethrows(o) == o
RecCatch(o) == IF o.threw THEN FellThrough ELSE o

\* if (Array.isArray(v) && v.length > 0) return validateAndClean(v)
ReturnValidated(v) ==
  IF v.t = "arr" /\ v.a # <<>>
    THEN IF validateAndClean(v.a).threw THEN Thrown
         ELSE Returned(validateAndClean(v.a).list)
    ELSE FellThrough

\* Strategies 1 to 3: JSON.parse of the text, or of what the pattern matched
ParsedList(m) ==
  IF ~m.found THEN FellThrough
  ELSE LET r == JsonParse(m.text)
       IN IF ~r.ok THEN Thrown ELSE ReturnValidated(r.v)

\* Object.values(parsed).find((v) => Array.isArray(v)), undefined if none
FirstArrayMember(v) ==
  LET at == IF v.t = "obj" THEN {i \in DOMAIN v.m : Prop(v, v.m[i].k).t = "arr"}
            ELSE {}
  IN IF at = {} THEN JUndef
     ELSE Prop(v, v.m[CHOOSE i \in at : \A j \in at : i <= j].k)

\* Strategy 4: the first array among the members of a matched object
NestedList(m) ==
  IF ~m.found THEN FellThrough
  ELSE LET r == JsonParse(m.text)
       IN IF ~r.ok THEN Thrown ELSE ReturnValidated(FirstArrayMember(r.v))

\* parseRecommendations(rawResponse) for a string
parseRecommendations(rawResponse) ==
  LET s1 == RecCatch(ParsedList([found |-> TRUE, text |-> TrimText(rawResponse)]))
      s2 == RecCatch(ParsedList(Span(rawResponse, "[", "]")))
      s3 == RecCatch(ParsedList(FenceMatch(rawResponse)))
      s4 == RecCatch(NestedList(Span(rawResponse, "{", "}")))
  IN IF s1.returned \/ s1.threw THEN s1
     ELSE IF s2.returned \/ s2.threw THEN s2
     ELSE IF s3.returned \/ s3.threw THEN s3
     ELSE IF s4.returned \/ s4.threw THEN s4
     ELSE Returned(<<>>)

\* whether parseRecommendations hands some array to validateAndClean
IsList(v) == v.t = "arr" /\ v.a # <<>>

ValidateInvoked(rawResponse) ==
  LET value(m) == IF m.found /\ JsonParse(m.text).ok THEN JsonParse(m.text).v ELSE JUndef
  IN \/ IsList(value([found |-> TRUE, text |-> TrimText(rawResponse)]))
     \/ IsList(value(Span(rawResponse, "[", "]")))
     \/ IsList(value(FenceMatch(rawResponse)))
     \/ IsList(FirstArrayMember(value(Span(rawResponse, "{", "}"))))

\* ------------------------------------------------------------------------
\* Texts a model returns
\* ------------------------------------------------------------------------
\* {"title": "A", "author": "B"}, an entry with a title
EntryA == <<"{", "$title", ":", "$A", ",", "$author", ":", "$B", "}">>
\* {"author": "B"}, an entry without one
EntryX == <<"{", "$author", ":", "$B", "}">>

\* the pieces texts are made of: brackets, fences and prose on their own,
\* and arrays and objects written out
Fragments ==
  { <<"prose">>, <<"ws">>, <<"fence">>, <<"json">>, <<"[">>, <<"]">>, <<"{">>, <<"}">>,
    <<"[">> \o EntryA \o <<"]">>,
    <<"[">> \o EntryA \o <<",", "ws">> \o EntryX \o <<"]">>,
    <<"[">> \o EntryA \o <<",", "null", "]">>,
    <<"[">> \o EntryA \o <<",", "]">>,
    <<"[", "]">>,
    <<"{", "$books", ":", "[">> \o EntryA \o <<"]", "}">>,
    <<"{", "$list", ":", "[">> \o EntryA \o <<"]", "}">> }

\* the texts of at most n fragments
RECURSIVE TextsUpTo(_)
TextsUpTo(n) ==
  IF n = 0 THEN {<<>>}
  ELSE TextsUpTo(n - 1) \cup {t \o f : t \in TextsUpTo(n - 1), f \in Fragments}

\* longer texts: an array between prose, in fences, brackets around prose,
\* a record with a number for its author, a list inside a record without title
LongTexts ==
  { <<"fence", "json", "[">> \o EntryA \o <<"]", "fence">>,
    <<"fence", "ws", "[">> \o EntryA \o <<",", "null", "]", "ws", "fence">>,
    <<"fence", "[">> \o EntryA \o <<",", "ws">> \o EntryX \o <<"]", "fence">>,
    <<"prose", "[">> \o EntryA \o <<"]", "prose">>,
    <<"prose", "{", "$list", ":", "[">> \o EntryA \o <<"]", "}", "prose">>,
    <<"[", "prose", "]">>,
    <<"fence", "json", "prose", "fence">>,
    <<"[", "{", "$title", ":", "$A", ",", "$author", ":", "7", "}", "]">>,
    <<"[", "{", "$author", ":", "$B", ",", "$list", ":", "[">> \o EntryA \o <<"]", "}", "]">> }

Texts == TextsUpTo(MaxFragments) \cup LongTexts

\* ------------------------------------------------------------------------
\* computeConfidence and the validation step of recognizeBooks
\* ------------------------------------------------------------------------
\* Scores are counted in units of 0.00001, so that 0.01 is Hundredth units.
\* The constants of computeConfidence are multiples of 0.01, yet the sums
\* binary floating point makes of them are not (0.92 + 0.05 is
\* 0.9700000000000001): drift is the error of the additions, some units
\* either way.
Hundredth == 1000

Drifts == (0 - MaxDrift)..MaxDrift

\* String(v) for a value that is neither null nor undefined
RECURSIVE ToStr(_)
RECURSIVE JoinStr(_)
ToStr(v) ==
  CASE v.t = "str" -> v.s
    [] v.t = "num" -> IF v.n = 0 THEN <<"0">> ELSE <<"7">>
    [] v.t = "bool" -> IF v.b THEN <<"t", "r", "u", "e">> ELSE <<"f", "a", "l", "s", "e">>
    [] v.t = "arr" -> JoinStr(v.a)
    [] v.t = "obj" -> <<"[object Object]">>
    [] OTHER -> <<>>

\* Array.prototype.join: null and undefined elements give the empty string
JoinStr(a) ==
  IF a = <<>> THEN <<>>
  ELSE IF Len(a) = 1 THEN ToStr(a[1])
  ELSE ToStr(a[1]) \o <<",">> \o JoinStr(Tail(a))

\* (book.certainty || "medium").toString().trim().toLowerCase()
CertaintyOf(book) ==
  ToLowerCase(Trim(ToStr(OrValue(Prop(book, "certainty"),
                                 JStr(<<"m", "e", "d", "i", "u", "m">>)))))

\* every certainty scored as high is
BaseScore_Flat(certainty) == 92 * Hundredth

\* the base score of a certainty
BaseScore(certainty) ==
  CASE certainty = <<"h", "i", "g", "h">> -> 92 * Hundredth
    [] certainty = <<"m", "e", "d", "i", "u", "m">> -> 78 * Hundredth
    [] certainty = <<"l", "o", "w">> -> 60 * Hundredth
    [] OTHER -> 50 * Hundredth

\* book.author && book.author.trim() !== "" &&
\* book.author.trim().toLowerCase() !== "unknown", for a string or falsy author
HasAuthor(book) ==
  LET author == Prop(book, "author")
  IN /\ Truthy(author)
     /\ Trim(author.s) # <<>>
     /\ ToLowerCase(Trim(author.s)) # ToLowerCase(Unknown)

\* (book.title || "").trim().length
TitleLength(book) == Len(Trim(OrValue(Prop(book, "title"), JStr(<<>>)).s))

\* computeConfidence throws TypeError on a book that is null, and on an
\* author or a title that is truthy and has no trim()
ConfidenceThrows(book) ==
  \/ PropThrows(book)
  \/ Truthy(Prop(book, "author")) /\ TrimThrows(Prop(book, "author"))
  \/ Truthy(Prop(book, "title")) /\ TrimThrows(Prop(book, "title"))

\* Math.min(1, Math.max(0, score))
Clamp(score) ==
  LET floor == IF score < 0 THEN 0 ELSE score
  IN IF floor > 100 * Hundredth THEN 100 * Hundredth ELSE floor

\* Math.round(x * 100) / 100 for x >= 0
RoundHundredths(score) == ((score + Hundredth \div 2) \div Hundredth) * Hundredth

\* the score before it is clamped and rounded
Adjusted(book) ==
  BaseScore(CertaintyOf(book))
    + (IF HasAuthor(book) THEN 5 * Hundredth ELSE 0)
    - (IF TitleLength(book) < 3 THEN 5 * Hundredth ELSE 0)
    - (IF TitleLength(book) > 80 THEN 3 * Hundredth ELSE 0)
    - (IF ~HasAuthor(book) THEN 3 * Hundredth ELSE 0)

\* computeConfidence(book): the score, or a TypeError
computeConfidence(book, drift) ==
  IF ConfidenceThrows(book) THEN [threw |-> TRUE, score |-> 0]
  ELSE [threw |-> FALSE, score |-> RoundHundredths(Clamp(Adjusted(book) + drift))]

\* getConfidenceBadge(confidence): the label of the tier
TopTier == 95
GoodTier == 85
ModerateTier == 75
getConfidenceBadge(confidence) ==
  IF confidence >= TopTier * Hundredth THEN "High Confidence"
  ELSE IF confidence >= GoodTier * Hundredth THEN "Good Confidence"
  ELSE IF confidence >= ModerateTier * Hundredth THEN "Moderate Confidence"
  ELSE "Low Confidence"

\* the filter of step 9: book.title && typeof book.title === "string" &&
\* book.title.trim().length > 0 (book is neither null nor undefined)
BookHasTitle(book) ==
  LET title == Prop(book, "title")
  IN /\ Truthy(title)
     /\ title.t = "str"
     /\ Trim(title.s) # <<>>

\* the author of step 9: the trimmed string, "Unknown" for anything else
BookAuthor(book) ==
  LET author == Prop(book, "author")
  IN IF Truthy(author) /\ author.t = "str" /\ Trim(author.s) # <<>>
       THEN Trim(author.s) ELSE Unknown

\* step 9 of recognizeBooks on the array parseAIResponse returned: the
\* books, or the TypeError of the filter or of computeConfidence
ValidateRecognized(rawBooks, drift) ==
  IF \E i \in DOMAIN rawBooks : PropThrows(rawBooks[i])
    THEN [threw |-> TRUE, list |-> <<>>]
  ELSE LET kept == SelectSeq(rawBooks, BookHasTitle)
       IN IF \E i \in DOMAIN kept : ConfidenceThrows(kept[i])
            THEN [threw |-> TRUE, list |-> <<>>]
            ELSE [threw |-> FALSE,
                  list |-> [i \in DOMAIN kept |->
                    [title |-> Trim(Prop(kept[i], "title").s),
                     author |-> BookAuthor(kept[i]),
                     confidence |-> computeConfidence(kept[i], drift).score]]]

\* ------------------------------------------------------------------------
\* Arrays the parsers return, and validation called on them
\* ------------------------------------------------------------------------
Field(k, s) == Member(k, JStr(s))

\* entries of a parsed array
Entries ==
  { JObj(<<Field("title", <<"A">>),
           Field("author", <<"B">>)>>),
    JObj(<<Field("title", <<" ", "B", " ">>),
           Field("reason", <<"O", "k", ".">>)>>),
    JObj(<<Field("author", <<"B">>)>>),
    JObj(<<Field("title", <<" ">>)>>),
    JObj(<<Member("title", JNum(7))>>),
    JObj(<<Field("title", <<"B">>),
           Member("author", JNum(7))>>),
    JNum(7),
    JNull }

RECURSIVE ListsUpTo(_, _)
ListsUpTo(S, n) ==
  IF n = 0 THEN {<<>>}
  ELSE ListsUpTo(S, n - 1) \cup {Append(l, e) : l \in ListsUpTo(S, n - 1), e \in S}

ShortLists == ListsUpTo(Entries, MaxEntries)

\* one letter per position, so that every title of a long list is its own
Letter(i) == <<"T", "i", "t", "l", "e", "s", "A", "B", "a", "b", "u", "h">>[i]

\* long arrays: at position i an entry titled Letter(i), or one without title
LongLists ==
  UNION { { [i \in 1..n |->
              IF titled[i]
                THEN JObj(<<Field("title", <<Letter(i)>>)>>)
                ELSE JObj(<<Field("author", <<"B">>)>>)] :
            titled \in [1..n -> BOOLEAN] } : n \in (MaxLong - 1)..MaxLong }

\* validateAndClean(parsed) is called and has ended
CallValidateAndClean(list) ==
  /\ call.fn = "none"
  /\ call' = [out |-> validateAndClean(list), fn |-> "validateAndClean", list |-> list]
  /\ UNCHANGED <<cache, enrichVars, opsVars, handlerVars, now, swept, gen, prefVars>>

\* step 9 of recognizeBooks has run on rawBooks, or has thrown
CallValidateRecognized(list, drift) ==
  /\ call.fn = "none"
  /\ call' = [out |-> ValidateRecognized(list, drift), fn |-> "recognizeBooks",
               list |-> list]
  /\ UNCHANGED <<cache, enrichVars, opsVars, handlerVars, now, swept, gen, prefVars>>

\* ------------------------------------------------------------------------
\* The parsers called on their own
\* ------------------------------------------------------------------------
\* parseAIResponse(aiResponseText) is called and has ended
CallParseAIResponse(text) ==
  /\ call.fn = "none"
  /\ call' = [out |-> parseAIResponse(text), fn |-> "parseAIResponse", text |-> text]
  /\ UNCHANGED <<cache, enrichVars, opsVars, handlerVars, now, swept, gen, prefVars>>

\* parseRecommendations(rawResponse) is called and has ended
CallParseRecommendations(text) ==
  /\ call.fn = "none"
  /\ call' = [out |-> parseRecommendations(text), fn |-> "parseRecommendations",
               text |-> text]
  /\ UNCHANGED <<cache, enrichVars, opsVars, handlerVars, now, swept, gen, prefVars>>

\* the caller goes on
CallOver ==
  /\ call.fn # "none"
  /\ call' = NoCall
  /\ UNCHANGED <<cache, enrichVars, opsVars, handlerVars, now, swept, gen, prefVars>>

ParseNext ==
  \/ \E text \in Texts : CallParseAIResponse(text)
  \/ \E text \in Texts : CallParseRecommendations(text)
  \/ CallOver

SpecParse == Init /\ [][ParseNext]_vars

\* records computeConfidence is called with: a certainty that is absent, a
\* tag, another string, a number or an array, an author that is absent, a
\* name, "Unknown", blank, null, a number or an array of names, and titles
\* of 0, 1, 3 and 81 characters
Certainties ==
  { JUndef, JStr(<<"h", "i", "g", "h">>), JStr(<<" ", "H", "i", "g", "h", " ">>),
    JStr(<<"m", "e", "d", "i", "u", "m">>), JStr(<<"l", "o", "w">>),
    JStr(<<"s", "u", "r", "e">>), JNum(7), JArr(<<JStr(<<"l", "o", "w">>)>>) }

Authors ==
  { JUndef, JStr(<<"B">>), JStr(Unknown), JStr(<<" ">>), JNull, JNum(7),
    JArr(<<JStr(<<"A">>), JStr(<<"B">>)>>) }

Titles ==
  { JUndef, JStr(<<"A">>), JStr(<<"A", "b", "c">>), JStr([i \in 1..81 |-> "x"]) }

\* the object with the members that are present
Record(certainty, author, title) ==
  JObj((IF certainty = JUndef THEN <<>> ELSE <<Member("certainty", certainty)>>)
       \o (IF author = JUndef THEN <<>> ELSE <<Member("author", author)>>)
       \o (IF title = JUndef THEN <<>> ELSE <<Member("title", title)>>))

\* computeConfidence(book) is called and has ended
CallComputeConfidence(book, drift) ==
  /\ call.fn = "none"
  /\ call' = [out |-> computeConfidence(book, drift), fn |-> "computeConfidence",
               book |-> book, before |-> <<>>]
  /\ UNCHANGED <<cache, enrichVars, opsVars, handlerVars, now, swept, gen, prefVars>>

\* it is called once more with the same record; what the call before it
\* returned is remembered
CallAgain(drift) ==
  /\ call.fn = "computeConfidence"
  /\ call.before = <<>>
  /\ call' = [call EXCEPT !.out = computeConfidence(call.book, drift),
                          !.before = <<call.out>>]
  /\ UNCHANGED <<cache, enrichVars, opsVars, handlerVars, now, swept, gen, prefVars>>

ConfidenceNext ==
  \/ \E c \in Certainties, a \in Authors, t \in Titles, drift \in Drifts :
       CallComputeConfidence(Record(c, a, t), drift)
  \/ \E drift \in Drifts : CallAgain(drift)
  \/ CallOver

SpecConfidence == Init /\ [][ConfidenceNext]_vars

ValidateNext ==
  \/ \E list \in ShortLists \cup LongLists : CallValidateAndClean(list)
  \/ \E list \in ShortLists, drift \in Drifts : CallValidateRecognized(list, drift)
  \/ CallOver

SpecValidate == Init /\ [][ValidateNext]_vars

\* ------------------------------------------------------------------------
\* generateRecommendations
\* ------------------------------------------------------------------------
\* the book lists it is called with
GenShelves ==
  { <<>>,
    <<[title |-> <<"A">>, author |-> <<"B">>, confidence |-> 97, enriched |-> FALSE]>>,
    <<[title |-> <<"A">>, author |-> <<"B">>, confidence |-> 97, enriched |-> FALSE],
      [title |-> <<"B">>, author |-> Unknown, confidence |-> 60, enriched |-> FALSE]>> }

\* what data.choices?.[0]?.message?.content || "" may be
ModelTexts == Texts

\* the catch block: a timeout or another error is thrown to the caller
Fail_Retries(g, err) ==
  [g EXCEPT !.calls = @ + 1, !.trace = Append(@, "CALL_MODEL")]
Fail(g, err) ==
  [g EXCEPT !.at = "threw", !.error = err,
            !.trace = Append(@, IF err = "timeout" THEN "TIMEOUT" ELSE "API_ERROR")]

\* Steps 1 to 3 up to the await of fetch: an empty list is answered at once;
\* otherwise the prompt is built, the timeout armed and the request sent
GenStart(bs) ==
  /\ gen.at = "idle"
  /\ gen' = IF bs = <<>>
              THEN [NoGen EXCEPT !.at = "returned", !.trace = <<"DONE">>]
              ELSE [NoGen EXCEPT !.at = "fetch", !.books = bs, !.calls = 1,
                                 !.timer = "armed",
                                 !.trace = <<"BUILD_PROMPT", "CALL_MODEL">>]
  /\ UNCHANGED <<cache, enrichVars, opsVars, handlerVars, now, swept, call, prefVars>>

\* fetch resolves with the status line and headers: clearTimeout(timeoutId),
\* then the body is awaited, as text for an error status and as JSON otherwise
GenHeaders(ok) ==
  /\ gen.at = "fetch"
  /\ gen' = [gen EXCEPT !.timer = "cleared", !.at = IF ok THEN "json" ELSE "text"]
  /\ UNCHANGED <<cache, enrichVars, opsVars, handlerVars, now, swept, call, prefVars>>

\* fetch rejects (DNS, connection): the catch calls clearTimeout() without
\* the id, which clears nothing, and rethrows
GenRejects ==
  /\ gen.at = "fetch"
  /\ gen' = Fail(gen, "network_error")
  /\ UNCHANGED <<cache, enrichVars, opsVars, handlerVars, now, swept, call, prefVars>>

\* the timeout fires: controller.abort(); a fetch still awaited rejects with
\* AbortError and the catch throws the timeout error
GenTimeout ==
  /\ gen.timer = "armed"
  /\ gen' = IF gen.at = "fetch"
              THEN [Fail(gen, "timeout") EXCEPT !.timer = "fired"]
              ELSE [gen EXCEPT !.timer = "fired"]
  /\ UNCHANGED <<cache, enrichVars, opsVars, handlerVars, now, swept, call, prefVars>>

\* Step 4: the body of an error response was read, or reading it failed:
\* either way an Error is thrown
GenErrorBody ==
  /\ gen.at = "text"
  /\ gen' = Fail(gen, "api_error")
  /\ UNCHANGED <<cache, enrichVars, opsVars, handlerVars, now, swept, call, prefVars>>

\* Step 5: response.json() rejects
GenBodyFails ==
  /\ gen.at = "json"
  /\ gen' = Fail(gen, "bad_body")
  /\ UNCHANGED <<cache, enrichVars, opsVars, handlerVars, now, swept, call, prefVars>>

\* Steps 5 and 6: response.json() resolves; the text is parsed and validated
\* and the result returned
GenBody(rawResponse) ==
  /\ gen.at = "json"
  /\ gen' = [gen EXCEPT
       !.at = "returned",
       !.rawResponse = rawResponse,
       !.recommendations = parseRecommendations(rawResponse).list,
       !.prompt_book_count = Len(gen.books),
       !.trace = @ \o (IF ValidateInvoked(rawResponse)
                         THEN <<"PARSE", "VALIDATE", "DONE">>
                         ELSE <<"PARSE", "DONE">>)]
  /\ UNCHANGED <<cache, enrichVars, opsVars, handlerVars, now, swept, call, prefVars>>

\* the caller has the result or the error; a later call is a new invocation
GenOver ==
  /\ gen.at \in {"returned", "threw"}
  /\ gen' = NoGen
  /\ UNCHANGED <<cache, enrichVars, opsVars, handlerVars, now, swept, call, prefVars>>

GenNext ==
  \/ \E bs \in GenShelves : GenStart(bs)
  \/ \E ok \in BOOLEAN : GenHeaders(ok)
  \/ GenRejects
  \/ GenTimeout
  \/ GenErrorBody
  \/ GenBodyFails
  \/ \E t \in ModelTexts : GenBody(t)
  \/ GenOver

\* one caller invoking generateRecommendations, again and again
SpecGen == Init /\ [][GenNext]_vars

\* ------------------------------------------------------------------------
\* truncateReason on its own
\* ------------------------------------------------------------------------
\* reasons of the model: letters, with a sentence end at p and at q (none
\* at 0) and blanks at the positions of sp
ReasonLengths == {0, 3, 82, 83, 199, 200, 201, 205}
SentenceEnds == {0, 2, 80, 81, 82, 83, 150, 200, 201}
EarlierEnds == {0, 90}
Blanks == {{}, {1}, {200}, {199, 200}, {201}}

EndMark(i) == IF i % 3 = 0 THEN "!" ELSE IF i % 3 = 1 THEN "?" ELSE "."

Reason(n, p, q, sp) ==
  [i \in 1..n |-> IF i \in {p, q} THEN EndMark(i) ELSE IF i \in sp THEN " " ELSE "x"]

Reasons ==
  {Reason(n, p, q, sp) : n \in ReasonLengths, p \in SentenceEnds,
                         q \in EarlierEnds, sp \in Blanks}

\* truncateReason(reason) is called and has ended
CallTruncateReason(reason) ==
  /\ call.fn = "none"
  /\ call' = [out |-> truncateReason(reason), fn |-> "truncateReason", reason |-> reason]
  /\ UNCHANGED <<cache, enrichVars, opsVars, handlerVars, now, swept, gen, prefVars>>

ReasonNext ==
  \/ \E reason \in Reasons : CallTruncateReason(reason)
  \/ CallOver

SpecReason == Init /\ [][ReasonNext]_vars

\* ------------------------------------------------------------------------
\* PUT /api/preferences
\* ------------------------------------------------------------------------
\* A string of the body is a sequence whose elements are spaces and words.
VALID_GENRES ==
  { "Fiction", "Non-Fiction", "Science Fiction", "Fantasy", "Mystery / Thriller",
    "Romance", "Horror", "Historical Fiction", "Biography / Memoir", "Self-Help",
    "Science / Technology", "Philosophy", "Poetry", "Business / Economics",
    "Young Adult (YA)" }

VALID_LANGUAGES ==
  { "English", "Chinese (Mandarin)", "German", "French", "Spanish", "Japanese",
    "Russian", "Portuguese", "Korean", "Italian", "Dutch", "Swedish", "Arabic",
    "Hindi", "Turkish" }

VALID_READING_LEVELS == {"Beginner", "Intermediate", "Advanced"}

\* list.includes(s) for a string s
Includes(list, s) == Len(s) = 1 /\ s[1] \in list

\* the rows of sessions
Sessions == {"d1", "d2"}

\* the primary key of preferences
PreferencesUnique == {{"device_id"}}

\* genres.filter(typeof g === "string" && VALID_GENRES.includes(g)).slice(0, 15)
CleanGenres(genres) ==
  IF genres.t # "arr" THEN <<>>
  ELSE LET valid(g) == g.t = "str" /\ Includes(VALID_GENRES, g.s)
       IN Take(SelectSeq(genres.a, valid), 15)

\* authors.filter(non-blank string).map(trim).slice(0, 20)
CleanAuthors(authors) ==
  IF authors.t # "arr" THEN <<>>
  ELSE LET named(a) == a.t = "str" /\ Trim(a.s) # <<>>
           kept == SelectSeq(authors.a, named)
       IN Take([i \in DOMAIN kept |-> JStr(Trim(kept[i].s))], 20)

\* the trimmed string if the list includes it, "" otherwise
CleanChoice(v, list) ==
  IF v.t = "str" /\ Trim(v.s) # <<>> /\ Includes(list, Trim(v.s))
    THEN Trim(v.s) ELSE <<>>

\* a query parameter bound to a TEXT[] column: undefined and null are sent
\* as NULL, an array of scalars as an array of their texts; anything else
\* is no array literal, and the statement is rejected
TextArrayOk(v) ==
  \/ v.t \in {"undefined", "null"}
  \/ v.t = "arr" /\ \A i \in DOMAIN v.a : v.a[i].t \in {"str", "num", "bool"}

TextArray(v) ==
  IF v.t \in {"undefined", "null"} THEN JNull
  ELSE JArr([i \in DOMAIN v.a |-> JStr(ToStr(v.a[i]))])

\* the table after INSERT ... ON CONFLICT (device_id) DO UPDATE SET ...
UpsertPreferences(rows, device, genres, authors, language, level) ==
  {x \in rows : x.device_id # device}
    \cup {[device_id |-> device, genres |-> genres, authors |-> authors,
            language |-> language, reading_level |-> level]}

\* what handlePut answers with a status and nothing else
Refused(status) == [status |-> status]

\* handlePut: the checks, the cleaning, the session check and the upsert,
\* whose second parameter is genres as the body has it; up tells whether the
\* database can be reached
PutPreferences(body, up) ==
  /\ IF body.device_id = "" \/ ~IsUuid(body.device_id)
       THEN pres' = Refused(400) /\ prefs' = prefs
     ELSE IF ~up
       THEN pres' = Refused(500) /\ prefs' = prefs
     ELSE IF body.device_id \notin Sessions
       THEN pres' = Refused(404) /\ prefs' = prefs
     ELSE IF ~(ConflictTargetOk(PreferencesUnique, {"device_id"})
               /\ TextArrayOk(body.genres))
       THEN pres' = Refused(500) /\ prefs' = prefs
     ELSE /\ prefs' = UpsertPreferences(prefs, body.device_id,
                         TextArray(body.genres),
                         JArr(CleanAuthors(body.authors)),
                         JStr(CleanChoice(body.language, VALID_LANGUAGES)),
                         JStr(CleanChoice(body.reading_level, VALID_READING_LEVELS)))
          /\ pres' = [device_id |-> body.device_id, status |-> 200,
                       preferences |->
                         [genres |-> CleanGenres(body.genres),
                          authors |-> CleanAuthors(body.authors),
                          language |-> CleanChoice(body.language, VALID_LANGUAGES),
                          reading_level |->
                            CleanChoice(body.reading_level, VALID_READING_LEVELS)]]
  /\ UNCHANGED <<cache, enrichVars, opsVars, handlerVars, now, swept, gen, call>>

\* bodies clients send
Word(w) == JStr(<<w>>)

PutBodies ==
  [ device_id : {"d1", "d2", "s9", "not-a-uuid", ""},
    genres : { JUndef, JArr(<<Word("Fiction")>>), Word("Fiction"),
               JArr(<<Word("Fiction"), Word("Cookery")>>) },
    authors : { JUndef, JArr(<<JStr(<<" ", "A", " ">>), JStr(<<" ">>), JNum(7)>>) },
    language : { JStr(<<" ", "English", " ">>), Word("Klingon") },
    reading_level : { JUndef, Word("Advanced"), Word("Expert") } ]

PrefsNext == \E body \in PutBodies, up \in BOOLEAN : PutPreferences(body, up)

\* clients saving preferences, one request after another
SpecPrefs == Init /\ [][PrefsNext]_vars

\* ------------------------------------------------------------------------
\* Preferences in the recommendation prompt
\* ------------------------------------------------------------------------
\* hasAnyPreferences(preferences): preferences is null or a preferences row
hasAnyPreferences(preferences) ==
  /\ preferences # JNull
  /\ \/ preferences.genres.t = "arr" /\ preferences.genres.a # <<>>
     \/ preferences.authors.t = "arr" /\ preferences.authors.a # <<>>
     \/ preferences.language.t = "str" /\ Trim(preferences.language.s) # <<>>
     \/ preferences.reading_level.t = "str" /\ Trim(preferences.reading_level.s) # <<>>

\* buildPreferencesSection(preferences): null, or the fields that get a
\* sentence, in the order of their sentences
buildPreferencesSection(preferences) ==
  IF ~hasAnyPreferences(preferences) THEN JNull
  ELSE LET part(ok, name) == IF ok THEN <<name>> ELSE <<>>
       IN [t |-> "section",
           parts |->
             part(preferences.genres.t = "arr" /\ preferences.genres.a # <<>>, "genres")
             \o part(preferences.authors.t = "arr" /\ preferences.authors.a # <<>>, "authors")
             \o part(preferences.language.t = "str"
                       /\ Trim(preferences.language.s) # <<>>, "language")
             \o part(preferences.reading_level.t = "str"
                       /\ Trim(preferences.reading_level.s) # <<>>, "reading_level")]

\* Step 5 of the handler: generateRecommendations(enrichedRecognizedBooks),
\* one argument, so that the parameter preferences takes its default, null
ModelCall(r) == [books |-> shelf[r], preferences |-> JNull]

\* the preferences section buildPrompt appends for the call of handler r
PromptSection(r) == buildPreferencesSection(ModelCall(r).preferences)

\* preferences a client saves before asking for recommendations
FlowBodies ==
  { b \in PutBodies :
      /\ b.device_id = "d1" /\ b.authors = JUndef /\ b.reading_level = JUndef
      /\ b.language = Word("Klingon") /\ b.genres.t # "str" }

\* a PUT /api/preferences served while no generation is under way
SavePreferences ==
  /\ \A r \in Procs : hpc[r] \in {"idle", "done"}
  /\ \E body \in FlowBodies : PutPreferences(body, TRUE)

FlowNext == HandlerNext \/ SavePreferences

\* clients that save preferences and ask for recommendations
SpecFlow == Init /\ [][FlowNext]_vars

\* ------------------------------------------------------------------------
\* Properties of enrichBooks
\* ------------------------------------------------------------------------
BookFields == {"title", "author", "confidence"}
AddedFields == {"isbn", "cover_url", "description", "categories", "enriched"}

\* entry e is book b with the five enrichment fields added
EntryOf(e, b) ==
  /\ DOMAIN e = BookFields \cup AddedFields
  /\ \A f \in BookFields : e[f] = b[f]

CurrentBook(p) == books[p][idx[p]]

\* C1: enrichBooks returns exactly one output per input book, in the input
\* order, each output being its input book with isbn, cover_url,
\* description, categories and enriched added; while the loop runs the
\* outputs are those of the books already handled, none dropped or doubled.
C1_OneOutputPerBook ==
  \A p \in Procs :
    /\ pc[p] = "done" => Len(out[p]) = Len(books[p])
    /\ pc[p] \in {"check", "fetch", "store"} => Len(out[p]) = idx[p] - 1
    /\ pc[p] = "delay" => Len(out[p]) = idx[p]
    /\ Len(out[p]) <= Len(books[p])
    /\ \A k \in DOMAIN out[p] : EntryOf(out[p][k], books[p][k])

\* a finished batch of two books: the first was enriched, the second failed
C1_Witness ==
  \E p \in Procs :
    /\ pc[p] = "done" /\ Len(books[p]) = 2 /\ apiKey
    /\ out[p][1].enriched /\ out[p][1].isbn # JsNull
    /\ ~out[p][2].enriched /\ EncodeThrows(books[p][2].title)

\* the step of p in which the catch block of the loop runs
Failure(p) ==
  \/ QueryFails(p)
  \/ \E resp \in Responses :
       Fetch(p, resp) /\ QueryThrows(CurrentBook(p).title, CurrentBook(p).author)

\* C2: when the cache lookup, the catalog search or the cache write of one
\* book throws, that book is pushed with enriched = false and null metadata,
\* the outputs of the books before it stay as they are, nothing is written
\* to the cache, and the loop goes on with the next book (the batch ends
\* only after its last book).
C2_FailureIsolated ==
  [][\A p \in Procs :
       Failure(p) =>
         /\ out'[p] = Append(out[p], [isbn |-> JsNull, cover_url |-> JsNull,
                                      description |-> JsNull, categories |-> <<>>,
                                      enriched |-> FALSE] @@ CurrentBook(p))
         /\ cache' = cache
         /\ books'[p] = books[p]
         /\ pc'[p] = IF idx[p] < Len(books[p]) THEN "delay" ELSE "done"]_vars

\* the lookup of the first book failed (nothing cached, catalog not asked),
\* and the book after it was looked up in the catalog and enriched
C2_Witness ==
  \E p \in Procs :
    /\ pc[p] = "done" /\ Len(books[p]) = 2
    /\ ~out[p][1].enriched /\ ~EncodeThrows(books[p][1].title)
    /\ out[p][2].enriched /\ out[p][2].isbn = "9780"
    /\ \A r \in cache : r.cache_id = 1 /\ r.title = PgText(books[p][2].title)
    /\ cache # {}

\* the rows of the cache that carry the key of book b
KeyRows(rows, b) ==
  {r \in rows : r.title_lower = PgText(TitleLower(b.title))
                /\ r.author_lower = PgText(AuthorLower(b.author))}

SameKey(a, b) ==
  TitleLower(a.title) = TitleLower(b.title) /\ AuthorLower(a.author) = AuthorLower(b.author)

\* C3: under every interleaving of concurrent invocations that found the
\* same key missing, the cache holds at most one row per normalized key, the
\* upsert of an invocation is never refused because another writer was
\* first, and after each upsert the row of the key carries the metadata of
\* that upsert (the last writer wins).
C3_ConcurrentUpsert ==
  /\ [](\A r1, r2 \in cache :
          (r1.title_lower = r2.title_lower /\ r1.author_lower = r2.author_lower) => r1 = r2)
  /\ [](\A p \in Procs : pc[p] = "store" => ENABLED Store(p))
  /\ [][\A p \in Procs :
          Store(p) =>
            {RowMetadata(r) : r \in KeyRows(cache', CurrentBook(p))}
              = {StoredMetadata(fetched[p])}]_vars

\* two invocations missed the same key; one has written its row and the
\* other is about to write different metadata over it
C3_Witness ==
  \E p, q \in Procs :
    /\ p # q /\ pc[p] = "store" /\ pc[q] = "done" /\ Len(out[q]) = 1
    /\ idx[p] = 1 /\ SameKey(books[p][1], books[q][1])
    /\ out[q][1].isbn = "9780"
    /\ KeyRows(cache, books[p][1]) # {}
    /\ fetched[p].found /\ fetched[p].metadata.isbn = "0451"

\* C6: when the catalog answers with zero results, the upsert leaves a row
\* with all-null metadata under the book's key; rows are never removed; and
\* a lookup of a key that has a row, all-null or not, is a hit that goes on
\* without asking the catalog, while a key without a row is a miss.
C6_NegativeCaching ==
  /\ [][\A p \in Procs :
          (Store(p) /\ answer[p] = "zero") =>
            {RowMetadata(r) : r \in KeyRows(cache', CurrentBook(p))} = {NullMetadata}]_vars
  /\ [][\A r \in cache : \E r2 \in cache' :
          r2.title_lower = r.title_lower /\ r2.author_lower = r.author_lower]_vars
  /\ [][\A p \in Procs :
          CheckCache(p) =>
            IF KeyRows(cache, CurrentBook(p)) # {}
              THEN pc'[p] # "fetch" /\ Len(out'[p]) = Len(out[p]) + 1
              ELSE pc'[p] = "fetch"]_vars

\* a book was answered from an all-null row: enriched by a hit although the
\* catalog had nothing
C6_Witness ==
  \E p \in Procs :
    /\ Len(out[p]) = 2 /\ pc[p] = "done"
    /\ ~out[p][1].enriched /\ out[p][1].isbn = JsNull
    /\ out[p][2].enriched /\ out[p][2].isbn = JsNull /\ out[p][2].cover_url = JsNull
    /\ \E r \in cache : RowMetadata(r) = NullMetadata

\* C7 as claimed: after the catalog exchange of a book ended in an error
\* (HTTP status, timeout, network error, unreadable body), enrichBooks
\* leaves the rows of that book's key as they are.
C7_ErrorsNotCached ==
  [][\A p \in Procs :
       (pc[p] = "store" /\ answer[p] = "error" /\ pc'[p] # "store") =>
         KeyRows(cache', CurrentBook(p)) = KeyRows(cache, CurrentBook(p))]_vars

\* C10 as claimed: the catalog search always returns to the orchestrator
\* (with metadata or with null) and returns metadata only for an answer
\* with at least one item.
C10_FailsClosed ==
  [][\A p \in Procs :
       (pc[p] = "fetch" /\ pc'[p] # "fetch") =>
         /\ pc'[p] = "store"
         /\ fetched'[p].found => answer'[p] = "items"]_vars

\* ------------------------------------------------------------------------
\* Properties of the cache operations
\* ------------------------------------------------------------------------
\* the normalized key as the specification words it
NormTitle(t) == Trim(ToLowerCase(t))
NormAuthor(a) == Trim(ToLowerCase(IF a = Undefined THEN <<>> ELSE a))
SameNormKey(t1, a1, t2, a2) ==
  NormTitle(t1) = NormTitle(t2) /\ NormAuthor(a1) = NormAuthor(a2)

\* the last upsert of the log made under the normalized key of (t, a)
LastUpsert(t, a) ==
  LET same == {i \in DOMAIN log : SameNormKey(log[i].title, log[i].author, t, a)}
  IN log[CHOOSE i \in same : \A j \in same : j <= i]

\* C8: after sequential upserts under one normalized key there is exactly
\* one row of that key, and a lookup of the key returns the isbn, cover_url,
\* description and categories of the last of them.
C8_LastWriteWins ==
  /\ \A i \in DOMAIN log :
       Cardinality({r \in cache : r.title_lower = NormTitle(log[i].title)
                                  /\ r.author_lower = NormAuthor(log[i].author)}) = 1
  /\ (lookup.done /\ \E i \in DOMAIN log :
                       SameNormKey(log[i].title, log[i].author, lookup.title, lookup.author))
       => lookup.rows = {LastUpsert(lookup.title, lookup.author).metadata}

\* two upserts of one key with different spelling and different metadata,
\* then a lookup that returns the second metadata
C8_Witness ==
  /\ Len(log) = 2 /\ lookup.done
  /\ SameNormKey(log[1].title, log[1].author, log[2].title, log[2].author)
  /\ log[1].title # log[2].title
  /\ log[1].metadata # log[2].metadata
  /\ SameNormKey(log[2].title, log[2].author, lookup.title, lookup.author)
  /\ lookup.rows = {log[2].metadata}
  /\ Cardinality(cache) = 1

\* C9: a lookup is a hit exactly when some upsert was made under the same
\* normalized key, trim(lowercase(title)) and trim(lowercase(author or ""));
\* spellings that differ in case or surrounding blanks, and an absent and an
\* empty author, address one row; a title that only shares a prefix does not.
C9_KeyEquivalence ==
  lookup.done =>
    (lookup.rows # {} <=>
       \E i \in DOMAIN log :
         SameNormKey(log[i].title, log[i].author, lookup.title, lookup.author))

\* a hit through another spelling of the title and an absent author for an
\* empty one
C9_Witness ==
  /\ Len(log) = 1 /\ lookup.done /\ lookup.rows # {}
  /\ log[1].title = <<"A">> /\ lookup.title = <<" ", "a", " ">>
  /\ log[1].author = <<>> /\ lookup.author = Undefined

\* ------------------------------------------------------------------------
\* Properties of the recommendations table
\* ------------------------------------------------------------------------
\* the rows of recommendations for a scan
ScanRows(rows, scan) == {x \in rows : x.scan_id = scan}

\* the table holds exactly one row for the scan and it carries the payload
OneRowHolding(rows, scan, data) ==
  /\ Cardinality(ScanRows(rows, scan)) = 1
  /\ \A x \in ScanRows(rows, scan) : x.book_data = data

\* C4: a store on the recommendations table never fails on the scan_id and
\* leaves exactly one row for that scan_id, holding the payload just stored
\* (inserted when the scan had no row, updated in place when it had one), so
\* no scan_id ever has two rows.
C4_StoreIsUpsert ==
  [][\A r \in Procs :
       StoreRecommendations(r) =>
         /\ hres'[r].status = 200
         /\ OneRowHolding(recs', req[r].scan_id, payload[r])
         /\ \A x \in recs' : Cardinality(ScanRows(recs', x.scan_id)) = 1]_vars

\* two requests for the same scan that both passed the check for existing
\* recommendations before either stored: r is about to store, and the other
\* is about to store too or has just stored
Overlapping(r, o) ==
  /\ r # o
  /\ req[r].scan_id = req[o].scan_id
  /\ hpc[r] = "store"
  /\ \/ hpc[o] = "store"
     \/ hpc[o] = "done" /\ hres[o].status = 200 /\ ~hres[o].already_existed

\* C5: when two requests for the same scan overlap past the check for
\* existing recommendations, the store of each one succeeds with 200 and the
\* table then holds exactly one row for the scan, carrying the payload of
\* the request that stored last.
C5_OverlappingRequestsSucceed ==
  [][\A r, o \in Procs :
       (Overlapping(r, o) /\ StoreRecommendations(r)) =>
         /\ hres'[r].status = 200
         /\ OneRowHolding(recs', req[r].scan_id, payload[r])]_vars

\* ------------------------------------------------------------------------
\* Properties of cleanupOldRecommendations
\* ------------------------------------------------------------------------
\* the unsaved rows created more than 24 hours before t
StaleRows(rows, t) == {x \in rows : ~x.saved /\ t - x.create_at > RetentionHours}

\* C11: a call of cleanup removes exactly the rows that are unsaved and were
\* created more than 24 hours ago, keeps every saved row and every row not
\* older than 24 hours, and returns the number of rows it removed.
C11_CleanupDeletesStale ==
  [][CleanupOldRecommendations =>
       /\ recs' = recs \ StaleRows(recs, now)
       /\ ~swept'.threw
       /\ swept'.deleted = Cardinality(StaleRows(recs, now))]_vars

PhaseOrders ==
  { <<"DONE">>,
    <<"BUILD_PROMPT", "CALL_MODEL">>,
    <<"BUILD_PROMPT", "CALL_MODEL", "TIMEOUT">>,
    <<"BUILD_PROMPT", "CALL_MODEL", "API_ERROR">>,
    <<"BUILD_PROMPT", "CALL_MODEL", "PARSE", "DONE">>,
    <<"BUILD_PROMPT", "CALL_MODEL", "PARSE", "VALIDATE", "DONE">> }

Refusals == {400, 403, 404, 405}

\* the positions of a request before generateRecommendations is called
BeforeModel == {"idle", "existing", "scan", "shelf"}

C14_FailuresAreExplicit ==
  [][\A r \in Procs :
       /\ (LlmReturns(r, <<>>) \/ \E err \in LlmErrors : LlmFails(r, err)) =>
            /\ hpc'[r] = "done"
            /\ hres'[r].status = 500
            /\ recs' = recs /\ cache' = cache
            /\ cleanup' = cleanup
            /\ pc'[r] = "idle"
       /\ (hpc[r] # "done" /\ hpc'[r] = "done" /\ hres'[r].status \in Refusals) =>
            /\ hpc[r] \in {"idle", "scan"}
            /\ recs' = recs /\ cache' = cache
            /\ cleanup' = cleanup
       /\ (hpc[r] # hpc'[r] /\ hpc'[r] \in BeforeModel) =>
            \/ hpc'[r] = "idle" /\ hpc[r] = "done"
            \/ hpc'[r] = "existing" /\ hpc[r] = "idle"
            \/ hpc'[r] = "scan" /\ hpc[r] = "existing"
            \/ hpc'[r] = "shelf" /\ hpc[r] = "scan"
       /\ hpc[r] \in BeforeModel => pc[r] = "idle"
       /\ (recs' # recs \/ cleanup'[r] # cleanup[r]) =>
            \E o \in Procs : hpc[o] = "store"]_vars

\* a request was answered 500 because the model returned no valid
\* recommendation; nothing is stored and no cleanup is pending
C14_Witness ==
  \E r \in Procs :
    /\ hpc[r] = "done"
    /\ hres[r] = NoValidResults
    /\ req[r].scan_id = "s1"
    /\ recs = {}
    /\ cleanup[r] # "pending"

\* ------------------------------------------------------------------------
\* C15: parseAIResponse and parseRecommendations never throw: for every
\* text they return an array, and the empty array when the text holds no
\* array at all (empty text, prose, objects and fences without an array).
\* ------------------------------------------------------------------------
Parsers == {"parseAIResponse", "parseRecommendations"}

\* the text holds no opening bracket, so no strategy has an array to extract
NoArrayIn(text) == \A i \in DOMAIN text : text[i] # "["

C15_ParsersNeverThrow ==
  call.fn \in Parsers =>
    /\ ~call.out.threw
    /\ call.out.returned
    /\ DOMAIN call.out.list = 1..Len(call.out.list)
    /\ NoArrayIn(call.text) => call.out.list = <<>>

\* parseRecommendations was given an array with a trailing comma: JSON.parse
\* threw in every strategy and the empty array was returned
C15_Witness ==
  /\ call.fn = "parseRecommendations"
  /\ call.text = <<"prose", "[">> \o EntryA \o <<",", "]">>
  /\ ~JsonParse(<<"[">> \o EntryA \o <<",", "]">>).ok
  /\ call.out = Returned(<<>>)

\* ------------------------------------------------------------------------
\* C16: validation is per record: of a parsed array exactly the entries
\* without a non-empty string title are dropped, the others are kept in
\* their order, and no entry makes the validation of recognition throw.
\* ------------------------------------------------------------------------
\* the entry has a title that is a string with a character other than space
Titled(e) == Prop(e, "title").t = "str" /\ Trim(Prop(e, "title").s) # <<>>

\* the i-th validated record is the i-th titled entry: its title is that
\* entry's, trimmed, less a " by <author>" suffix
InOrderOf(list, valid) ==
  \A i \in DOMAIN list :
    /\ i <= Len(valid)
    /\ LET title == Trim(Prop(valid[i], "title").s)
       IN Take(title, Len(list[i].title)) = list[i].title

C16_ValidationPerRecord ==
  (call.fn \in {"validateAndClean", "recognizeBooks"}
     /\ Len(call.list) <= NUM_RECOMMENDATIONS) =>
    LET valid == SelectSeq(call.list, Titled)
    IN /\ call.fn = "recognizeBooks" => ~call.out.threw
       /\ Len(call.out.list) = Len(valid)
       /\ InOrderOf(call.out.list, valid)

\* ------------------------------------------------------------------------
\* C17: validateAndClean returns, for every parsed array, the first
\* min(NUM_RECOMMENDATIONS, number of titled entries) titled entries in the
\* order of the array (a call that throws returns none).
\* ------------------------------------------------------------------------
C17_CappedAtN ==
  call.fn = "validateAndClean" =>
    LET valid == SelectSeq(call.list, Titled)
        n == IF Len(valid) < NUM_RECOMMENDATIONS THEN Len(valid) ELSE NUM_RECOMMENDATIONS
    IN /\ Len(call.out.list) = n
       /\ InOrderOf(call.out.list, valid)

\* ------------------------------------------------------------------------
\* C18: for every record computeConfidence returns a value in [0,1] that
\* has at most two decimals, and the same record always yields the same
\* value.
\* ------------------------------------------------------------------------
C18_ConfidenceInRange ==
  call.fn = "computeConfidence" =>
    /\ ~call.out.threw
    /\ call.out.score \in 0..(100 * Hundredth)
    /\ call.out.score % Hundredth = 0
    /\ \A i \in DOMAIN call.before : call.before[i] = call.out

\* ------------------------------------------------------------------------
\* C19: within one enrichBooks invocation the books are processed one after
\* another: the invocation waits for one query or one catalog request at a
\* time, that of book idx, while the books before it, and only they, have
\* their output; it moves to the next book only once the current one has
\* its output. Invocations overlap each other freely.
\* ------------------------------------------------------------------------
\* the invocation awaits a cache query or a catalog request
Awaiting(p) == pc[p] \in {"check", "fetch", "store"}

C19_SequentialPerInvocation ==
  [][\A p \in Procs :
       /\ Awaiting(p) =>
            /\ idx[p] \in 1..Len(books[p])
            /\ Len(out[p]) = idx[p] - 1
       /\ pc[p] = "delay" => Len(out[p]) = idx[p] /\ idx[p] < Len(books[p])
       /\ (Awaiting(p) /\ Awaiting(p)' /\ idx'[p] # idx[p]) =>
            /\ idx'[p] = idx[p] + 1
            /\ Len(out'[p]) = idx[p]
       /\ (pc[p] = "delay" /\ pc'[p] # "delay") =>
            /\ idx'[p] = idx[p] + 1
            /\ pc'[p] = "check"
       /\ Len(out'[p]) > Len(out[p]) =>
            \/ Len(out'[p]) = Len(out[p]) + 1 /\ Awaiting(p)
            \/ pc[p] = "idle"]_vars

\* an invocation waits for the catalog request of its second book, the
\* first book having its output
C19_Witness ==
  \E p \in Procs :
    /\ pc[p] = "fetch"
    /\ idx[p] = 2
    /\ Len(books[p]) = 2
    /\ Len(out[p]) = 1

\* ------------------------------------------------------------------------
\* C20: an external call is covered by an armed timeout for as long as it
\* is in flight: from the sending of the request until the response has
\* been read to its end or the call has failed, its timer is armed; and a
\* call that ended with the timeout error is one whose timer fired.
\* ------------------------------------------------------------------------
\* the request was sent and its response is not yet read to the end
GenInFlight == gen.at \in {"fetch", "json", "text"}

C20_TimeoutCoversCall ==
  /\ GenInFlight => gen.timer = "armed"
  /\ (gen.at = "threw" /\ gen.error = "timeout") => gen.timer = "fired"

\* ------------------------------------------------------------------------
\* C22: every stored preferences row has genres within the fixed list, a
\* language and a reading level that are of their fixed lists or empty;
\* there is one row per device; and the preferences a PUT answers are the
\* ones it stored.
\* ------------------------------------------------------------------------
C22_StoredPreferencesValid ==
  /\ \A x \in prefs :
       /\ x.genres.t = "arr"
       /\ \A i \in DOMAIN x.genres.a : Includes(VALID_GENRES, x.genres.a[i].s)
       /\ x.language.s = <<>> \/ Includes(VALID_LANGUAGES, x.language.s)
       /\ x.reading_level.s = <<>> \/ Includes(VALID_READING_LEVELS, x.reading_level.s)
  /\ \A x, y \in prefs : x.device_id = y.device_id => x = y
  /\ pres.status = 200 =>
       \E x \in prefs :
         /\ x.device_id = pres.device_id
         /\ x.genres = JArr(pres.preferences.genres)
         /\ x.authors = JArr(pres.preferences.authors)
         /\ x.language = JStr(pres.preferences.language)
         /\ x.reading_level = JStr(pres.preferences.reading_level)

\* ------------------------------------------------------------------------
\* C21: when a generation calls the model for a device whose stored
\* preferences have a non-empty field, the call carries the stored
\* preferences and the prompt has the preferences section.
\* ------------------------------------------------------------------------
C21_PreferencesInjected ==
  \A r \in Procs : \A x \in prefs :
    (hpc[r] = "llm" /\ x.device_id = req[r].device_id /\ hasAnyPreferences(x))
      => /\ ModelCall(r).preferences = x
         /\ PromptSection(r) # JNull

\* ------------------------------------------------------------------------
\* C23: an entry of enrichedBooks is flagged enriched exactly if it carries
\* catalog data. Every volume of the catalog carries some data, so an entry
\* with all-null metadata is one of a book the catalog has no data for,
\* whether the catalog was asked or the cache answered.
\* ------------------------------------------------------------------------
C23_EnrichedIffFound ==
  \A p \in Procs : \A i \in DOMAIN out[p] :
    out[p][i].enriched <=> RowMetadata(out[p][i]) # NullMetadata

\* ------------------------------------------------------------------------
\* C24: without an API key enrichBooks goes from its call straight to its
\* return: it never stands at a cache read, a catalog call or a cache
\* write, the cache stays as it was, and what it returns is every input
\* book, in order, with null metadata, no categories and enriched = false.
\* ------------------------------------------------------------------------
C24_NoKeyDegrades ==
  ~apiKey =>
    /\ cache = {}
    /\ \A p \in Procs :
         /\ pc[p] \in {"idle", "done"}
         /\ pc[p] = "done" =>
              /\ Len(out[p]) = Len(books[p])
              /\ \A i \in DOMAIN out[p] :
                   /\ out[p][i].title = books[p][i].title
                   /\ out[p][i].author = books[p][i].author
                   /\ out[p][i].confidence = books[p][i].confidence
                   /\ out[p][i].isbn = JsNull
                   /\ out[p][i].cover_url = JsNull
                   /\ out[p][i].description = JsNull
                   /\ out[p][i].categories = <<>>
                   /\ out[p][i].enriched = FALSE

\* without a key, an invocation holds its result for two books
C24_Witness ==
  /\ ~apiKey
  /\ \E p \in Procs : pc[p] = "done" /\ Len(books[p]) = 2 /\ Len(out[p]) = 2

\* ------------------------------------------------------------------------
\* C25: a storeInCache call on a key that has an entry leaves the number
\* of entries as it is, leaves every entry of another key as it is, and
\* leaves the identifier, title, author and cached_at of the entry of the
\* key as they are; only isbn, cover_url, description and categories of
\* that entry may differ afterwards.
\* ------------------------------------------------------------------------
C25_UpsertFrame ==
  [][(Len(log') = Len(log) + 1) =>
       LET u == log'[Len(log')]
           same(r) == SameNormKey(r.title, r.author, u.title, u.author)
       IN (\E r \in cache : same(r)) =>
            /\ Cardinality(cache') = Cardinality(cache)
            /\ \A r \in cache :
                 IF same(r)
                   THEN \E x \in cache' :
                          /\ x.cache_id = r.cache_id
                          /\ x.title = r.title /\ x.author = r.author
                          /\ x.title_lower = r.title_lower
                          /\ x.author_lower = r.author_lower
                          /\ x.cached_at = r.cached_at
                   ELSE r \in cache']_vars

\* a key stored as "A" at hour 0 was stored again, an hour later, as " a "
\* with other metadata: the entry shows the new metadata
C25_Witness ==
  /\ Len(log) = 2 /\ now = 2
  /\ log[1].title = <<"A">> /\ log[2].title = <<" ", "a", " ">>
  /\ log[1].author = log[2].author
  /\ log[1].metadata # log[2].metadata /\ log[2].metadata = NullMetadata
  /\ \E r \in cache :
       /\ r.title = <<"A">> /\ r.cached_at = 0 /\ RowMetadata(r) = NullMetadata

\* ------------------------------------------------------------------------
\* C26: when an invocation is through with a book it asked the catalog
\* about, it waits for the delay before it turns to the next book, so that
\* two catalog calls of one invocation always have a delay between them;
\* after a book answered from the cache it turns to the next book at once;
\* and it never waits after the last book.
\* ------------------------------------------------------------------------
C26_DelayBetweenCalls ==
  [][\A p \in Procs :
       /\ (pc[p] \in {"fetch", "store"} /\ pc'[p] \notin {"fetch", "store"}) =>
            pc'[p] = (IF idx[p] < Len(books[p]) THEN "delay" ELSE "done")
       /\ (pc[p] = "check" /\ Len(out'[p]) = Len(out[p]) + 1
              /\ out'[p][Len(out'[p])].enriched) =>
            pc'[p] # "delay"
       /\ pc'[p] = "delay" => idx[p] < Len(books[p])
       /\ (pc[p] = "delay" /\ pc'[p] # "delay") =>
            (pc'[p] = "check" /\ idx'[p] = idx[p] + 1)]_vars

\* the first of two books was looked up in the catalog and stored; the
\* invocation waits before it turns to the second
C26_Witness ==
  \E p \in Procs :
    /\ pc[p] = "delay" /\ Len(books[p]) = 2 /\ idx[p] = 1
    /\ Len(out[p]) = 1 /\ out[p][1].enriched
    /\ cache # {}

\* ------------------------------------------------------------------------
\* C27: parseRecommendations returns the records of the first strategy, in
\* the order whole text, bracket span, fenced block, first array of the
\* brace span, whose array is non-empty and has a usable title in every
\* record; it returns no records if no strategy has such an array.
\* ------------------------------------------------------------------------
\* the value a strategy extracts from the text, undefined if it has none
Extracted(m) == IF m.found /\ JsonParse(m.text).ok THEN JsonParse(m.text).v ELSE JUndef

StrategyArrays(text) ==
  << Extracted([found |-> TRUE, text |-> TrimText(text)]),
     Extracted(Span(text, "[", "]")),
     Extracted(FenceMatch(text)),
     FirstArrayMember(Extracted(Span(text, "{", "}"))) >>

\* a non-empty array of records each carrying a usable title
Successful(v) == v.t = "arr" /\ v.a # <<>> /\ \A i \in DOMAIN v.a : Titled(v.a[i])

C27_FirstSuccessWins ==
  call.fn = "parseRecommendations" =>
    LET arrays == StrategyArrays(call.text)
        wins == {k \in DOMAIN arrays : Successful(arrays[k])}
    IN IF wins = {} THEN call.out.list = <<>>
       ELSE LET first == arrays[CHOOSE k \in wins : \A j \in wins : k <= j].a
            IN /\ Len(call.out.list) = Len(Cap(first))
               /\ \A i \in DOMAIN call.out.list :
                    call.out.list[i].title =
                      StripBy(Trim(Prop(first[i], "title").s), call.out.list[i].author)

\* ------------------------------------------------------------------------
\* C28: for a record recognizeBooks passes to it (one with a title),
\* computeConfidence returns base + adjustments, clamped to [0,1] and
\* rounded to two decimals: base 0.92, 0.78, 0.60 for the tags high, medium,
\* low and 0.50 for another tag; +0.05 for a real author, -0.05 for a
\* trimmed title under 3 characters, -0.03 for one over 80, -0.03 for an
\* author that is absent or "Unknown". A record without a tag counts as
\* medium.
\* ------------------------------------------------------------------------
\* the tag as claimed: the certainty as text, trimmed and lower-cased
ClaimedTag(book) ==
  LET c == Prop(book, "certainty")
  IN IF c.t \in {"undefined", "null"} THEN <<"m", "e", "d", "i", "u", "m">>
     ELSE ToLowerCase(Trim(ToStr(c)))

ClaimedBase(tag) ==
  IF tag = <<"h", "i", "g", "h">> THEN 92
  ELSE IF tag = <<"m", "e", "d", "i", "u", "m">> THEN 78
  ELSE IF tag = <<"l", "o", "w">> THEN 60
  ELSE 50

\* an author that is a name: a string, not blank and not "Unknown"
RealAuthor(book) ==
  LET a == Prop(book, "author")
  IN a.t = "str" /\ Trim(a.s) # <<>> /\ ToLowerCase(Trim(a.s)) # ToLowerCase(Unknown)

\* the claimed score, in hundredths
ClaimedScore(book) ==
  LET n == Len(Trim(Prop(book, "title").s))
      sum == ClaimedBase(ClaimedTag(book))
               + (IF RealAuthor(book) THEN 5 ELSE -3)
               - (IF n < 3 THEN 5 ELSE 0)
               - (IF n > 80 THEN 3 ELSE 0)
  IN IF sum < 0 THEN 0 ELSE IF sum > 100 THEN 100 ELSE sum

C28_ConfidenceFormula ==
  (call.fn = "computeConfidence" /\ BookHasTitle(call.book)) =>
    /\ ~call.out.threw
    /\ call.out.score = ClaimedScore(call.book) * Hundredth

\* ------------------------------------------------------------------------
\* C29: a score computeConfidence returns is shown in the top tier only if
\* the record is tagged high and has a title and a real author; the score
\* of a record tagged high without a real author is below the top tier;
\* the score of a record with any other tag is below both upper tiers.
\* ------------------------------------------------------------------------
C29_TierAlignment ==
  (call.fn = "computeConfidence" /\ ~call.out.threw) =>
    LET badge == getConfidenceBadge(call.out.score)
        high == ClaimedTag(call.book) = <<"h", "i", "g", "h">>
    IN /\ badge = "High Confidence" =>
            high /\ RealAuthor(call.book) /\ BookHasTitle(call.book)
       /\ (high /\ ~RealAuthor(call.book)) => call.out.score < TopTier * Hundredth
       /\ ~high => call.out.score < GoodTier * Hundredth

\* a record tagged " High " with title and author is scored 0.97, top tier
C29_Witness ==
  /\ call.fn = "computeConfidence"
  /\ Prop(call.book, "certainty") = JStr(<<" ", "H", "i", "g", "h", " ">>)
  /\ RealAuthor(call.book) /\ BookHasTitle(call.book)
  /\ call.out = [threw |-> FALSE, score |-> 97 * Hundredth]
  /\ getConfidenceBadge(call.out.score) = "High Confidence"

\* ------------------------------------------------------------------------
\* C30: truncateReason looks at the first 200 characters of the trimmed
\* reason. If the last sentence end among them has more than 80 characters
\* before it, the result is the trimmed reason up to and including that
\* sentence end. Otherwise the result is those first 200 characters, with
\* the white space at their end removed, followed by "...". In both cases
\* the text kept is a prefix of the trimmed reason.
\* ------------------------------------------------------------------------
\* the first 200 characters of the trimmed reason
FirstChars(reason) ==
  LET t == Trim(reason)
  IN SubSeq(t, 1, IF Len(t) < ReasonBudget THEN Len(t) ELSE ReasonBudget)

\* the position of the last sentence end of the head, 0 if it has none
LastEnd(reason) ==
  LET at == {i \in DOMAIN FirstChars(reason) : FirstChars(reason)[i] \in {".", "!", "?"}}
  IN IF at = {} THEN 0 ELSE CHOOSE i \in at : \A j \in at : j <= i

\* whether the sentence end lies after the 80-character mark
CutsAtSentence(reason) == LastEnd(reason) - 1 > ReasonFloor

IsPrefix(s, t) == Len(s) <= Len(t) /\ s = SubSeq(t, 1, Len(s))

C31_ShortReasonKept ==
  (call.fn = "truncateReason" /\ Len(Trim(call.reason)) < ReasonBudget) =>
    call.out = Trim(call.reason)

\* ------------------------------------------------------------------------
\* The handler against a table that holds rows
\* ------------------------------------------------------------------------
\* book_data of a stored row: one recommendation and the prompt's book count
HeldData(reason) ==
  [metadata |-> [prompt_book_count |-> 1],
   recommendations |-> <<[title |-> <<"S">>, author |-> <<"B">>, reason |-> reason]>>]

HeldRow(id, device, scan, reason, saved) ==
  [scan_id |-> scan, device_id |-> device, book_data |-> HeldData(reason),
   recommendation_id |-> id, create_at |-> 0 - 1, saved |-> saved]

\* tables the handler may find: no row, a saved row for the scan of d1, and
\* that row next to an unsaved row for the scan of d2
HeldTables ==
  { {},
    {HeldRow(1, "d1", "s1", "r1", TRUE)},
    {HeldRow(1, "d1", "s1", "r1", TRUE), HeldRow(2, "d2", "s2", "r2", FALSE)} }

InitHeld ==
  /\ InitBase
  /\ recs \in HeldTables
  /\ prefs = {}
  /\ pres = NoAnswer
  /\ now = 0
  /\ swept = NoSweep
  /\ gen = NoGen
  /\ call = NoCall

\* requests served concurrently against a table that may hold rows
SpecHeld == InitHeld /\ [][HandlerNext]_vars

\* ------------------------------------------------------------------------
\* Properties of the handler on stored rows
\* ------------------------------------------------------------------------
\* the request in slot r finds a row of its scan in step 2
FindsRow(r) == hpc[r] = "existing" /\ ScanRows(recs, req[r].scan_id) # {}

\* C32: a request that finds a row of its scan answers 200 with
\* already_existed = true and the book_data of a row of that scan, and
\* touches neither the cache, nor the table, nor enrichBooks, nor cleanup;
\* and a request that went through the model call and the store leaves a row
\* of its scan behind, so that a request arriving after it finds that row
\* and generates nothing.
C32_GeneratedOnce ==
  [][\A r \in Procs :
       /\ (FindsRow(r) /\ CheckExisting(r)) =>
            /\ hres'[r].status = 200 /\ hres'[r].already_existed
            /\ \E x \in ScanRows(recs, req[r].scan_id) :
                 hres'[r].recommendations = x.book_data
            /\ UNCHANGED <<recs, cache, cleanup, enrichVars>>
       /\ StoreRecommendations(r) => ScanRows(recs', req[r].scan_id) # {}]_vars

\* the device the scan of request q belongs to, per the scans table
Owners(q) == {s.device_id : s \in {x \in ScanTable : x.scan_id = q.scan_id}}

CarriesStored(rows, r, response) ==
  /\ response.status = 200
  /\ \E x \in ScanRows(rows, req[r].scan_id) : response.recommendations = x.book_data

HoldsMetadata(row) ==
  \/ row.isbn # JsNull
  \/ row.cover_url # JsNull
  \/ row.description # JsNull
  \/ row.categories # <<>>

\* C35: a row of book_cache that holds catalog metadata holds catalog
\* metadata after every step of every enrichBooks invocation: no store
\* replaces it with the all-null metadata of a book that was not found.
C35_NeverDegrades ==
  [][\A row \in cache :
       HoldsMetadata(row) =>
         \A after \in cache' : after.cache_id = row.cache_id => HoldsMetadata(after)]_vars

\* ------------------------------------------------------------------------
\* Step 8 on a table that holds rows
\* ------------------------------------------------------------------------
\* bookData as Step 7 builds it
BookData ==
  { [metadata |-> [prompt_book_count |-> n],
     recommendations |-> [k \in DOMAIN list |-> FailedEntry(list[k])]] :
      list \in RecLists \ {<<>>}, n \in 1..MaxBooks }

\* the requests that get as far as Step 8: the owner of a scan with books
StoringRequests ==
  {q \in Requests :
     /\ Rejected(q) = 0
     /\ \E s \in ScanTable : /\ s.scan_id = q.scan_id
                             /\ s.device_id = q.device_id
                             /\ s.recognized_books.books # <<>>}

\* Step 8: the INSERT ... ON CONFLICT (scan_id) DO UPDATE SET book_data = $4
\* is sent for request q with bookData data; a rejected statement throws
StoreStep(q, data) ==
  /\ recs' = IF StoreAccepted
               THEN InsertRecommendation(recs, FreshRecId(recs), q.device_id,
                                         q.scan_id, data, now)
               ELSE recs
  /\ call' = [threw |-> ~StoreAccepted, scan_id |-> q.scan_id, fn |-> "store",
              data |-> data]
  /\ UNCHANGED <<cache, enrichVars, opsVars, hpc, req, shelf, payload, hres, cleanup,
                 now, swept, gen, prefVars>>

StoreNext == (\E q \in StoringRequests, data \in BookData : StoreStep(q, data)) \/ Tick

\* Step 8 executed against a table that may hold a row of the scan
SpecStore == InitHeld /\ [][StoreNext]_vars

GenEnded == gen.at \in {"returned", "threw"}

\* C37: when an invocation of generateRecommendations has ended, by
\* returning or by throwing, the timer it armed is not pending any more: it
\* was never armed, was cleared, or fired while the request was awaited.
C37_TimerCleared == GenEnded => gen.timer # "armed"

\* ------------------------------------------------------------------------
\* validateAndClean on titles that repeat the author
\* ------------------------------------------------------------------------
\* entries whose title ends in " by <author>", in the author's casing or in
\* another, once or twice, after one blank or two; a title that is nothing
\* but "by B"; an author of blanks; no author; the author "Unknown"
ByEntries ==
  { JObj(<<Field("title", <<"A", " ", "b", "y", " ", "B">>), Field("author", <<"B">>)>>),
    JObj(<<Field("title", <<"A", " ", " ", "b", "y", " ", "b">>), Field("author", <<"B", " ">>)>>),
    JObj(<<Field("title", <<" ", "b", "y", " ", "B">>), Field("author", <<"B">>)>>),
    JObj(<<Field("title", <<"A", " ", "b", "y", " ", "B", " ", "b", "y", " ", "B">>),
           Field("author", <<"B">>)>>),
    JObj(<<Field("title", <<"A", " ", "b", "y", " ", "B">>), Field("author", <<" ", " ">>)>>),
    JObj(<<Field("title", <<"A">>)>>),
    JObj(<<Field("title", <<"A", " ", "b", "y", " ">> \o Unknown), Field("author", Unknown)>>) }

ByLists == ListsUpTo(ByEntries, MaxEntries)

TitlesNext ==
  \/ \E list \in ByLists : CallValidateAndClean(list)
  \/ CallOver

SpecTitles == Init /\ [][TitlesNext]_vars

\* the title ends in " by <author>", whatever the casing
EndsInAuthor(title, author) ==
  EndsWith(ToLowerCase(title), ToLowerCase(<<" ", "b", "y", " ">> \o author))

\* C38: every record validateAndClean returns has a title that is not empty
\* and has no blank at either end, and an author that is not empty; the
\* author is "Unknown" when the entry had none; and the title does not end
\* in " by <author>".
C38_CleanRecords ==
  (call.fn = "validateAndClean" /\ ~call.out.threw) =>
    LET kept == SelectSeq(call.list, HasTitle)
    IN \A i \in DOMAIN call.out.list :
         LET rec == call.out.list[i]
         IN /\ rec.title # <<>> /\ Trim(rec.title) = rec.title
            /\ rec.author # <<>>
            /\ ~Truthy(Prop(kept[i], "author")) => rec.author = Unknown
            /\ ~EndsInAuthor(rec.title, rec.author)

\* the request in slot r was answered 200 with recommendations it generated
FreshlyAnswered(r) ==
  hpc[r] = "done" /\ hres[r].status = 200 /\ ~hres[r].already_existed

====
